---- MODULE Spec2Model ----
(***************************************************************************)
(* Model of the pyita moving-average engine (src/pyita/move_average.py),   *)
(* of the time-series container (src/pyita/data_series.py, quotes.py,      *)
(* indicator_result.py) and of the indicators ma, sma and ema.             *)
(*                                                                         *)
(* float64 values are modelled as exact rationals <<num, den>> in lowest   *)
(* terms with den > 0; NaN is the pair <<0, 0>>.  Arithmetic follows IEEE  *)
(* NaN propagation (any operation with a NaN operand yields NaN) and is    *)
(* otherwise exact: rounding error and infinities are not modelled.        *)
(* numpy arrays are TLA+ sequences; the code's 0-based index i is element  *)
(* i + 1 of the sequence (see At).                                         *)
(***************************************************************************)
EXTENDS Integers, Sequences, FiniteSets, TLC

\* Bounds of the model.
MaxLen == 4
MaxVal == 1
MaxPeriod == 3
MaxRows == 3

VARIABLES
    heap,       \* the buffers that exist: buffer id -> sequence of values
    source,     \* id of the array passed as source_values
    period,     \* the period argument
    ma_type,    \* the MA_Type argument
    pc,         \* "ready" before the call, "done" after it
    ret,        \* outcome of the call (see Ok / Raise)
    cont,       \* the container an operation produced (NoContainer when none)
    prev,       \* the container the operation was applied to
    op,         \* the container or indicator operation last requested
    outcome,    \* how that operation ended
    arrays      \* the array objects of the containers: array id -> view

engine_vars == <<source, period, ma_type, pc, ret>>

container_vars == <<cont, prev, op, outcome, arrays>>

vars == <<heap, source, period, ma_type, pc, ret, cont, prev, op, outcome, arrays>>

----------------------------------------------------------------------------
\* float64 arithmetic

NaN == <<0, 0>>

IsNaN(x) == x[2] = 0

Abs(n) == IF n < 0 THEN 0 - n ELSE n

RECURSIVE GCD(_, _)
GCD(a, b) == IF b = 0 THEN a ELSE GCD(b, a % b)

\* the float with value n / d (d # 0), in lowest terms with a positive denominator
Float(n, d) ==
    LET g == GCD(Abs(n), Abs(d))
        s == IF d < 0 THEN 0 - 1 ELSE 1
    IN  <<(s * n) \div g, (s * d) \div g>>

Num(n) == <<n, 1>>

Add(x, y) ==
    IF IsNaN(x) \/ IsNaN(y) THEN NaN
    ELSE Float(x[1] * y[2] + y[1] * x[2], x[2] * y[2])

Sub(x, y) ==
    IF IsNaN(x) \/ IsNaN(y) THEN NaN
    ELSE Float(x[1] * y[2] - y[1] * x[2], x[2] * y[2])

Mul(x, y) ==
    IF IsNaN(x) \/ IsNaN(y) THEN NaN
    ELSE Float(x[1] * y[1], x[2] * y[2])

\* x / n for a positive integer n
DivInt(x, n) ==
    IF IsNaN(x) THEN NaN ELSE Float(x[1], x[2] * n)

\* element i (0-based, as in the code) of an array
At(a, i) == a[i + 1]

\* a[lo : hi] for 0 <= lo <= hi <= len(a)
Slice(a, lo, hi) == SubSeq(a, lo + 1, hi)

\* a.sum(): left-to-right sum of the elements
RECURSIVE ArraySum(_)
ArraySum(a) ==
    IF Len(a) = 0 THEN Num(0)
    ELSE Add(ArraySum(SubSeq(a, 1, Len(a) - 1)), a[Len(a)])

----------------------------------------------------------------------------
\* outcomes of a call

Ok(values, alias) ==
    [kind |-> "ok", out |-> values, alias |-> alias, data_len |-> 0, required |-> 0]

Raise(kind, data_len, required) ==
    [kind |-> kind, out |-> <<>>, alias |-> FALSE,
     data_len |-> data_len, required |-> required]

PyTAExceptionTooLittleData(data_len, required) ==
    Raise("TooLittleData", data_len, required)

MA_Type == {"ema", "sma", "mma", "ema0", "mma0", "ema_warmup", "mma_warmup"}

----------------------------------------------------------------------------
\* move_average.py

RECURSIVE first_not_nan_from(_, _)
first_not_nan_from(values, i) ==
    IF i >= Len(values) THEN Len(values)
    ELSE IF ~IsNaN(At(values, i)) THEN i
    ELSE first_not_nan_from(values, i + 1)

get_first_index_not_nan(values) == first_not_nan_from(values, 0)

\* lines 53-62 of ema_calculate: the start index and the initial ema_value.
\* Defined only where the code's behaviour is defined (see ema_calculate).
ema_start(source_values, first_value, start) ==
    IF IsNaN(first_value)
    THEN IF get_first_index_not_nan(source_values) < Len(source_values)
         THEN get_first_index_not_nan(source_values)
         ELSE start
    ELSE start

ema_first(source_values, first_value, start) ==
    IF IsNaN(first_value)
    THEN At(source_values, ema_start(source_values, first_value, start))
    ELSE first_value

\* ema_calculate that adds the weighted sample to the unweighted estimate
RECURSIVE ema_value_at_unweighted(_, _, _, _, _)
ema_value_at_unweighted(source_values, alpha, seed, start, i) ==
    IF i <= start THEN seed
    ELSE Add(Mul(At(source_values, i), alpha),
             ema_value_at_unweighted(source_values, alpha, seed, start, i - 1))

\* ema_calculate that starts again from the sample when the estimate is NaN
RECURSIVE ema_value_at_reseeded(_, _, _, _, _)
ema_value_at_reseeded(source_values, alpha, seed, start, i) ==
    IF i <= start THEN seed
    ELSE IF IsNaN(ema_value_at_reseeded(source_values, alpha, seed, start, i - 1))
    THEN At(source_values, i)
    ELSE Add(Mul(At(source_values, i), alpha),
             Mul(ema_value_at_reseeded(source_values, alpha, seed, start, i - 1),
                 Sub(Num(1), alpha)))

\* the value ema_value has after the loop iteration for index i (i >= start)
RECURSIVE ema_value_at(_, _, _, _, _)
ema_value_at(source_values, alpha, seed, start, i) ==
    IF i <= start THEN seed
    ELSE Add(Mul(At(source_values, i), alpha),
             Mul(ema_value_at(source_values, alpha, seed, start, i - 1),
                 Sub(Num(1), alpha)))

\* ema_calculate with the previous estimate weighted by alpha instead of 1 - alpha
RECURSIVE ema_value_at_same_weight(_, _, _, _, _)
ema_value_at_same_weight(source_values, alpha, seed, start, i) ==
    IF i <= start THEN seed
    ELSE Add(Mul(At(source_values, i), alpha),
             Mul(ema_value_at_same_weight(source_values, alpha, seed, start, i - 1),
                 alpha))

ema_calculate_same_weight(source_values, alpha, first_value, start) ==
    LET n  == Len(source_values)
        st == ema_start(source_values, first_value, start)
        ev == ema_first(source_values, first_value, start)
    IN  IF n = 0
        THEN {Ok(<<>>, FALSE), Raise("IndexError", 0, 0), Raise("crash", 0, 0)}
        ELSE {Ok([j \in 1..n |->
                    IF j - 1 < st THEN NaN
                    ELSE ema_value_at_same_weight(source_values, alpha, ev, st, j - 1)],
                 FALSE)}

\* ema_calculate with the entries before start left at zero instead of NaN
ema_calculate_zero_prefix(source_values, alpha, first_value, start) ==
    LET n  == Len(source_values)
        st == ema_start(source_values, first_value, start)
        ev == ema_first(source_values, first_value, start)
    IN  IF n = 0
        THEN {Ok(<<>>, FALSE), Raise("IndexError", 0, 0), Raise("crash", 0, 0)}
        ELSE {Ok([j \in 1..n |->
                    IF j - 1 < st THEN Num(0)
                    ELSE ema_value_at(source_values, alpha, ev, st, j - 1)],
                 FALSE)}

\* The set of outcomes of ema_calculate.  With first_value NaN and an empty
\* source the compiled loop reads source_values[0] and writes result[0] out
\* of bounds (njit does no bounds checking): the call may return the empty
\* result, raise IndexError (bounds checking or the JIT disabled) or crash.
ema_calculate(source_values, alpha, first_value, start) ==
    LET n  == Len(source_values)
        st == ema_start(source_values, first_value, start)
        ev == ema_first(source_values, first_value, start)
    IN  IF n = 0
        THEN {Ok(<<>>, FALSE), Raise("IndexError", 0, 0), Raise("crash", 0, 0)}
        ELSE {Ok([j \in 1..n |->
                    IF j - 1 < st THEN NaN
                    ELSE ema_value_at(source_values, alpha, ev, st, j - 1)],
                 FALSE)}

\* np.ones(period) / period
sma_weights(p) == [k \in 1..p |-> DivInt(Num(1), p)]

\* np.convolve(a, v) in the default 'full' mode, for len(a) >= len(v) >= 1
RECURSIVE convolve_at(_, _, _, _)
convolve_at(a, v, j, k) ==
    IF k >= Len(v) THEN Num(0)
    ELSE IF j - k >= 0 /\ j - k < Len(a)
         THEN Add(Mul(At(a, j - k), At(v, k)), convolve_at(a, v, j, k + 1))
         ELSE convolve_at(a, v, j, k + 1)

convolve(a, v) == [j \in 1..(Len(a) + Len(v) - 1) |-> convolve_at(a, v, j - 1, 0)]

\* sma_calculate as the difference of two running sums, divided by the period
sma_calculate_running_sum(source_values, p) ==
    IF p = 1 THEN {Ok(source_values, TRUE)}
    ELSE
    LET data_len == Len(source_values) IN
    IF data_len < p THEN {PyTAExceptionTooLittleData(data_len, p)}
    ELSE {Ok([j \in 1..data_len |->
                IF j - 1 < p - 1 THEN NaN
                ELSE DivInt(Sub(ArraySum(SubSeq(source_values, 1, j)),
                                ArraySum(SubSeq(source_values, 1, j - p))), p)],
             FALSE)}

\* sma_calculate with weights np.ones(period), not divided by the period
sma_calculate_unit_weights(source_values, p) ==
    IF p = 1 THEN {Ok(source_values, TRUE)}
    ELSE
    LET data_len == Len(source_values) IN
    IF data_len < p THEN {PyTAExceptionTooLittleData(data_len, p)}
    ELSE
    LET full == convolve(source_values, [k \in 1..p |-> Num(1)])
        cut  == SubSeq(full, 1, Len(full) - (p - 1))
    IN  {Ok([j \in 1..Len(cut) |-> IF j - 1 < p - 1 THEN NaN ELSE cut[j]], FALSE)}

\* sma_calculate returning the full convolution, without the [:-period+1] cut
sma_calculate_full_convolution(source_values, p) ==
    IF p = 1 THEN {Ok(source_values, TRUE)}
    ELSE
    LET data_len == Len(source_values) IN
    IF data_len < p THEN {PyTAExceptionTooLittleData(data_len, p)}
    ELSE
    LET full == convolve(source_values, sma_weights(p))
    IN  {Ok([j \in 1..Len(full) |-> IF j - 1 < p - 1 THEN NaN ELSE full[j]], FALSE)}

\* sma_calculate without the period = 1 shortcut
sma_calculate_no_shortcut(source_values, p) ==
    LET data_len == Len(source_values) IN
    IF data_len < p THEN {PyTAExceptionTooLittleData(data_len, p)}
    ELSE
    LET full == convolve(source_values, sma_weights(p))
        cut  == SubSeq(full, 1, Len(full) - (p - 1))
    IN  {Ok([j \in 1..Len(cut) |-> IF j - 1 < p - 1 THEN NaN ELSE cut[j]], FALSE)}

\* sma_calculate with the length test data_len <= period
sma_calculate_strict_length(source_values, p) ==
    IF p = 1 THEN {Ok(source_values, TRUE)}
    ELSE
    LET data_len == Len(source_values) IN
    IF data_len <= p THEN {PyTAExceptionTooLittleData(data_len, p)}
    ELSE
    LET full == convolve(source_values, sma_weights(p))
        cut  == SubSeq(full, 1, Len(full) - (p - 1))
    IN  {Ok([j \in 1..Len(cut) |-> IF j - 1 < p - 1 THEN NaN ELSE cut[j]], FALSE)}

sma_calculate(source_values, p) ==
    IF p = 1 THEN {Ok(source_values, TRUE)}
    ELSE
    LET data_len == Len(source_values) IN
    IF data_len < p THEN {PyTAExceptionTooLittleData(data_len, p)}
    ELSE
    LET full == convolve(source_values, sma_weights(p))
        cut  == SubSeq(full, 1, Len(full) - (p - 1))
    IN  {Ok([j \in 1..Len(cut) |-> IF j - 1 < p - 1 THEN NaN ELSE cut[j]], FALSE)}

\* iema_calculate seeded with source_values[start] instead of the mean
iema_calculate_first_sample_seed(source_values, p, alpha) ==
    LET start    == get_first_index_not_nan(source_values)
        data_len == Len(source_values)
    IN  IF data_len < start + p
        THEN {PyTAExceptionTooLittleData(data_len, start + p)}
        ELSE ema_calculate(source_values, alpha, At(source_values, start),
                           start + p - 1)

\* iema_calculate with the length test data_len <= start + period
iema_calculate_strict_length(source_values, p, alpha) ==
    LET start    == get_first_index_not_nan(source_values)
        data_len == Len(source_values)
    IN  IF data_len <= start + p
        THEN {PyTAExceptionTooLittleData(data_len, start + p)}
        ELSE
        LET first_value ==
                DivInt(ArraySum(Slice(source_values, start, start + p)), p)
        IN  ema_calculate(source_values, alpha, first_value, start + p - 1)

iema_calculate(source_values, p, alpha) ==
    LET start    == get_first_index_not_nan(source_values)
        data_len == Len(source_values)
    IN  IF data_len < start + p
        THEN {PyTAExceptionTooLittleData(data_len, start + p)}
        ELSE
        LET first_value ==
                DivInt(ArraySum(Slice(source_values, start, start + p)), p)
        IN  ema_calculate(source_values, alpha, first_value, start + p - 1)

RECURSIVE ema_warmup_step(_, _, _)
ema_warmup_step(source_values, start, i) ==
    IF i = 0 THEN At(source_values, start)
    ELSE LET k == DivInt(Num(1), i + 1)
         IN  Add(Mul(At(source_values, start + i), k),
                 Mul(ema_warmup_step(source_values, start, i - 1), Sub(Num(1), k)))

\* ema_warmup_init smoothing with the fixed weight 2 / (period + 1)
RECURSIVE ema_warmup_step_fixed_weight(_, _, _, _)
ema_warmup_step_fixed_weight(source_values, start, i, k) ==
    IF i = 0 THEN At(source_values, start)
    ELSE Add(Mul(At(source_values, start + i), k),
             Mul(ema_warmup_step_fixed_weight(source_values, start, i - 1, k),
                 Sub(Num(1), k)))

ema_warmup_init_fixed_weight(source_values, p, start) ==
    ema_warmup_step_fixed_weight(source_values, start, p - 1, Float(2, p + 1))

ema_warmup_init(source_values, p, start) ==
    ema_warmup_step(source_values, start, p - 1)

\* ema_warmup_calculate without the early return for a source with no sample
ema_warmup_calculate_no_early_return(source_values, p, alpha) ==
    LET start    == get_first_index_not_nan(source_values)
        data_len == Len(source_values)
    IN  IF data_len < start + p
        THEN {PyTAExceptionTooLittleData(data_len, start + p)}
        ELSE ema_calculate(source_values, alpha,
                           ema_warmup_init(source_values, p, start), start + p - 1)

ema_warmup_calculate(source_values, p, alpha) ==
    LET start == get_first_index_not_nan(source_values) IN
    IF start >= Len(source_values)
    THEN {Ok([j \in 1..Len(source_values) |-> NaN], FALSE)}
    ELSE
    LET data_len == Len(source_values) IN
    IF data_len < start + p
    THEN {PyTAExceptionTooLittleData(data_len, start + p)}
    ELSE
    LET prev_ema == ema_warmup_init(source_values, p, start)
    IN  ema_calculate(source_values, alpha, prev_ema, start + p - 1)

\* alpha = 2.0 / (period + 1)  and  alpha = 1.0 / period
alpha_ema(p) == Float(2, p + 1)
alpha_mma(p) == Float(1, p)

ma_calculate(source_values, p, t) ==
    IF t = "sma" THEN sma_calculate(source_values, p)
    ELSE IF t = "ema0" THEN ema_calculate(source_values, alpha_ema(p), NaN, 0)
    ELSE IF t = "mma0" THEN ema_calculate(source_values, alpha_mma(p), NaN, 0)
    ELSE IF t = "ema" THEN iema_calculate(source_values, p, alpha_ema(p))
    ELSE IF t = "mma" THEN iema_calculate(source_values, p, alpha_mma(p))
    ELSE IF t = "ema_warmup" THEN ema_warmup_calculate(source_values, p, alpha_ema(p))
    ELSE IF t = "mma_warmup" THEN ema_warmup_calculate(source_values, p, alpha_mma(p))
    ELSE {Raise("ValueError", 0, 0)}

----------------------------------------------------------------------------
\* the state machine: one engine call on an arbitrary source

Samples == {NaN} \cup {Num(v) : v \in (0 - 1)..MaxVal}

Sources == UNION {[1..n -> Samples] : n \in 0..MaxLen}

NoReturn == [kind |-> "none", buf |-> 0, data_len |-> 0, required |-> 0]

\* no container exists and no container operation has been requested
NoContainer == [type |-> "none", cols |-> <<>>, data |-> <<>>]

NoOp == [name |-> "none"]

NoOutcome == [kind |-> "none"]

ContainerIdle ==
    /\ cont = NoContainer
    /\ prev = NoContainer
    /\ op = NoOp
    /\ outcome = NoOutcome
    /\ arrays = <<>>

Init ==
    /\ source = 1
    /\ heap \in [{1} -> Sources]
    /\ period \in 1..MaxPeriod
    /\ ma_type \in MA_Type
    /\ pc = "ready"
    /\ ret = NoReturn
    /\ ContainerIdle

\* ma_calculate(source_values, period, ma_type): a successful call returns
\* either the source array itself or a newly allocated array.
MaCalculate ==
    /\ pc = "ready"
    /\ \E r \in ma_calculate(heap[source], period, ma_type) :
         IF r.kind = "ok"
         THEN IF r.alias
              THEN /\ heap' = heap
                   /\ ret' = [kind |-> "ok", buf |-> source,
                              data_len |-> 0, required |-> 0]
              ELSE /\ heap' = [b \in {1, 2} |-> IF b = 2 THEN r.out ELSE heap[b]]
                   /\ ret' = [kind |-> "ok", buf |-> 2,
                              data_len |-> 0, required |-> 0]
         ELSE /\ heap' = heap
              /\ ret' = [kind |-> r.kind, buf |-> 0,
                         data_len |-> r.data_len, required |-> r.required]
    /\ pc' = "done"
    /\ UNCHANGED <<source, period, ma_type>>
    /\ UNCHANGED container_vars

Next == MaCalculate

Spec == Init /\ [][Next]_vars

\* A caller's later write into the array a call returned: result[i] = value.
\* The sample written is one no source holds.
WriteOutput ==
    /\ pc = "done"
    /\ ret.kind = "ok"
    /\ \E i \in 1..Len(heap[ret.buf]) :
         heap' = [heap EXCEPT ![ret.buf][i] = Num(MaxVal + 1)]
    /\ pc' = "written"
    /\ UNCHANGED <<source, period, ma_type, ret>>
    /\ UNCHANGED container_vars

NextWrite == MaCalculate \/ WriteOutput

SpecWrite == Init /\ [][NextWrite]_vars

----------------------------------------------------------------------------
\* The time-series container (DataSeries, Quotes, IndicatorResult).
\*
\* A numpy array object is a record [base, idx, writeable]: a view of the
\* buffer heap[base] that holds the buffer's elements at the positions idx
\* and carries its own writeable flag.  A container is a record
\* [type, cols, data]: the column names in insertion order and, position for
\* position, the ids of their array objects in `arrays`.

\* no engine call is in progress
EngineIdle ==
    /\ source = 0
    /\ period = 1
    /\ ma_type = "sma"
    /\ pc = "idle"
    /\ ret = NoReturn

\* an omitted slice bound, and a given one
None == <<>>

Some(v) == <<v>>

Range(s) == {s[i] : i \in 1..Len(s)}

\* the first element of seq that is not in S
FirstNotIn(seq, S) ==
    seq[CHOOSE i \in 1..Len(seq) :
            /\ seq[i] \notin S
            /\ \A j \in 1..(i - 1) : seq[j] \in S]

column_names == <<"open", "high", "low", "close", "volume", "time">>

REQUIRED_COLUMNS == <<"open", "high", "low", "close">>

ALLOWED_COLUMNS == <<"open", "high", "low", "close", "volume", "time">>

\* the keys of Quotes.column_types()
column_types == {"open", "high", "low", "close", "volume", "time"}

\* the column names a caller passes to Quotes(...): the six known ones and
\* one that is not known; and the names of the series of an indicator result
QuoteKeys == column_names \o <<"adj_close">>

ResultKeys == <<"macd", "signal">>

\* the names of S in the order of keys (the order of the caller's arguments)
InOrder(keys, S) == SelectSeq(keys, LAMBDA c : c \in S)

\* how an operation ends: normally, or with an exception of class `kind`
\* whose message is `message` followed by the column or the lengths it lists
Completed ==
    [kind |-> "ok", message |-> "", column |-> "", lengths |-> <<>>,
     reads |-> {}, engine |-> FALSE]

Thrown(kind, message, column, lengths) ==
    [kind |-> kind, message |-> message, column |-> column,
     lengths |-> lengths, reads |-> {}, engine |-> FALSE]

\* _add_data(key, data) of a Quotes container that already stores `present`
add_data(key, present) ==
    IF key \in present
    THEN Thrown("BadParameterValue", "already exists", key, <<>>)
    ELSE IF key \notin column_types
    THEN Thrown("BadParameterValue", "Unknown column type", key, <<>>)
    ELSE Completed

\* the loop of __init__ over the arguments keys[k], keys[k+1], ...
RECURSIVE add_all(_, _)
add_all(keys, k) ==
    IF k > Len(keys) THEN Completed
    ELSE LET r == add_data(keys[k], {keys[j] : j \in 1..(k - 1)}) IN
         IF r.kind # "ok" THEN r ELSE add_all(keys, k + 1)

check_lengths(cols, lens) ==
    \A i \in 1..Len(cols) : lens[cols[i]] = lens[cols[1]]

\* _validate_data of Quotes without the comparison of the lengths
validate_data_no_length_check(cols, lens) ==
    IF \E i \in 1..Len(cols) : cols[i] \notin Range(ALLOWED_COLUMNS)
    THEN Thrown("BadSeriesData", "Unknown column",
                FirstNotIn(cols, Range(ALLOWED_COLUMNS)), <<>>)
    ELSE IF \E i \in 1..Len(REQUIRED_COLUMNS) : REQUIRED_COLUMNS[i] \notin Range(cols)
    THEN Thrown("BadSeriesData", "Missing required column",
                FirstNotIn(REQUIRED_COLUMNS, Range(cols)), <<>>)
    ELSE Completed

\* _validate_data of Quotes: allowed columns, required columns, lengths
validate_data(cols, lens) ==
    IF \E i \in 1..Len(cols) : cols[i] \notin Range(ALLOWED_COLUMNS)
    THEN Thrown("BadSeriesData", "Unknown column",
                FirstNotIn(cols, Range(ALLOWED_COLUMNS)), <<>>)
    ELSE IF \E i \in 1..Len(REQUIRED_COLUMNS) : REQUIRED_COLUMNS[i] \notin Range(cols)
    THEN Thrown("BadSeriesData", "Missing required column",
                FirstNotIn(REQUIRED_COLUMNS, Range(cols)), <<>>)
    ELSE IF Len(cols) > 1 /\ ~check_lengths(cols, lens)
    THEN Thrown("BadSeriesData", "Arrays have different lengths", "",
                [i \in 1..Len(cols) |-> <<cols[i], lens[cols[i]]>>])
    ELSE Completed

\* Quotes(**kwargs): every column is added, then the whole is validated
Quotes_init(cols, lens) ==
    LET r == add_all(cols, 1) IN
    IF r.kind # "ok" THEN r ELSE validate_data(cols, lens)

\* IndicatorResult(data_dict) with numpy arrays as values: nothing is checked
IndicatorResult_init(cols, lens) == Completed

\* a new array of n elements that owns buffer b
NewArray(b, n) == [base |-> b, idx |-> [k \in 1..n |-> k], writeable |-> TRUE]

\* the samples a caller passes for its k-th column of n rows
ColumnSamples(k, n) == [i \in 1..n |-> Num(10 * k + i)]

\* the elements of array object a
Values(a) == [k \in 1..Len(a.idx) |-> heap[a.base][a.idx[k]]]

\* slice.indices(n): step, start and stop of key on an array of n elements
slice_step(key) == IF key.step = None THEN 1 ELSE key.step[1]

\* the bound v clamped to the array without counting from the end
slice_adjust_no_wrap(v, n, step) ==
    IF v < 0 THEN (IF step < 0 THEN 0 - 1 ELSE 0)
    ELSE IF v >= n THEN (IF step < 0 THEN n - 1 ELSE n)
    ELSE v

\* a given bound v: below 0 it counts from the end, then it is clamped
slice_adjust(v, n, step) ==
    LET w == IF v < 0 THEN v + n ELSE v IN
    IF w < 0 THEN (IF step < 0 THEN 0 - 1 ELSE 0)
    ELSE IF w >= n THEN (IF step < 0 THEN n - 1 ELSE n)
    ELSE w

slice_start(key, n) ==
    IF key.start = None
    THEN (IF slice_step(key) < 0 THEN n - 1 ELSE 0)
    ELSE slice_adjust(key.start[1], n, slice_step(key))

slice_stop(key, n) ==
    IF key.stop = None
    THEN (IF slice_step(key) < 0 THEN 0 - 1 ELSE n)
    ELSE slice_adjust(key.stop[1], n, slice_step(key))

\* the 0-based positions i, i+step, ... before stop
RECURSIVE slice_walk(_, _, _)
slice_walk(i, stop, step) ==
    IF (step > 0 /\ i < stop) \/ (step < 0 /\ i > stop)
    THEN <<i>> \o slice_walk(i + step, stop, step)
    ELSE <<>>

slice_positions(key, n) ==
    slice_walk(slice_start(key, n), slice_stop(key, n), slice_step(key))

\* arr[key] for a slice key: a view of the same buffer
array_getitem(a, key) ==
    LET pos == slice_positions(key, Len(a.idx)) IN
    [base |-> a.base,
     idx |-> [k \in 1..Len(pos) |-> a.idx[pos[k] + 1]],
     writeable |-> a.writeable]

SliceKey(start, stop, step) ==
    [name |-> "slice", start |-> start, stop |-> stop, step |-> step,
     index |-> 0]

IndexKey(i) ==
    [name |-> "index", start |-> None, stop |-> None, step |-> None,
     index |-> i]

\* the result of _create_sliced: how it ended and the arrays of the new
\* container, column for column
Sliced(c, arrs, key) ==
    [result |-> Completed, cols |-> c.cols,
     new |-> [k \in 1..Len(c.cols) |-> array_getitem(arrs[c.data[k]], key)]]

NotSliced(kind, message) ==
    [result |-> Thrown(kind, message, "", <<>>), cols |-> <<>>, new |-> <<>>]

\* _create_sliced with a bounds check that lets the index data_len through
create_sliced_index_past_end(c, arrs, key) ==
    IF c.cols = <<>> THEN [result |-> Completed, cols |-> <<>>, new |-> <<>>]
    ELSE LET data_len == Len(arrs[c.data[1]].idx) IN
         IF key.name = "index"
         THEN LET i == IF key.index < 0 THEN data_len + key.index ELSE key.index IN
              IF i < 0 \/ i > data_len
              THEN NotSliced("IndexError", "out of range")
              ELSE Sliced(c, arrs, SliceKey(Some(i), Some(i + 1), None))
         ELSE IF slice_step(key) = 0
         THEN NotSliced("ValueError", "slice step cannot be zero")
         ELSE Sliced(c, arrs, key)

\* _create_sliced that slices the first column only
create_sliced_first_column_only(c, arrs, key) ==
    IF c.cols = <<>> THEN [result |-> Completed, cols |-> <<>>, new |-> <<>>]
    ELSE LET data_len == Len(arrs[c.data[1]].idx) IN
         IF key.name = "index"
         THEN LET i == IF key.index < 0 THEN data_len + key.index ELSE key.index IN
              IF i < 0 \/ i >= data_len
              THEN NotSliced("IndexError", "out of range")
              ELSE Sliced(c, arrs, SliceKey(Some(i), Some(i + 1), None))
         ELSE IF slice_step(key) = 0
         THEN NotSliced("ValueError", "slice step cannot be zero")
         ELSE [result |-> Completed, cols |-> c.cols,
               new |-> [k \in 1..Len(c.cols) |->
                          IF k = 1 THEN array_getitem(arrs[c.data[k]], key)
                          ELSE arrs[c.data[k]]]]

\* _create_sliced(key) on container c, whose arrays are in arrs
create_sliced(c, arrs, key) ==
    IF c.cols = <<>> THEN [result |-> Completed, cols |-> <<>>, new |-> <<>>]
    ELSE LET data_len == Len(arrs[c.data[1]].idx) IN
         IF key.name = "index"
         THEN LET i == IF key.index < 0 THEN data_len + key.index ELSE key.index IN
              IF i < 0 \/ i >= data_len
              THEN NotSliced("IndexError", "out of range")
              ELSE Sliced(c, arrs, SliceKey(Some(i), Some(i + 1), None))
         ELSE IF slice_step(key) = 0
         THEN NotSliced("ValueError", "slice step cannot be zero")
         ELSE Sliced(c, arrs, key)

\* the number of rows of the longest column of c
RowCount(c) ==
    IF c.cols = <<>> THEN 0
    ELSE LET lens == {Len(arrays[c.data[k]].idx) : k \in 1..Len(c.cols)} IN
         CHOOSE n \in lens : \A m \in lens : m <= n

\* the slice bounds that differ in effect on n rows
Bounds(n) == {None} \cup {Some(v) : v \in (0 - (n + 1))..(n + 1)}

Steps == {None} \cup {Some(v) : v \in (0 - 2)..2}

InitContainer ==
    /\ heap = <<>>
    /\ EngineIdle
    /\ ContainerIdle

\* the caller's arrays become the columns of a new container
Allocate(type, cols, lens) ==
    /\ heap' = heap \o [k \in 1..Len(cols) |-> ColumnSamples(k, lens[cols[k]])]
    /\ arrays' = arrays \o
                   [k \in 1..Len(cols) |-> NewArray(Len(heap) + k, lens[cols[k]])]
    /\ cont' = [type |-> type, cols |-> cols,
                data |-> [k \in 1..Len(cols) |-> Len(arrays) + k]]

\* Quotes(open=..., high=..., ...): columns passed by name, in the order of
\* QuoteKeys (positional arguments are the same columns under the fixed names
\* of column_names); construction from a DataFrame or from ccxt rows is not
\* modelled.
ConstructQuotes ==
    /\ op = NoOp /\ cont = NoContainer
    /\ \E S \in SUBSET Range(QuoteKeys) :
         \E lens \in [S -> 0..MaxRows] :
            LET cols == InOrder(QuoteKeys, S)
                r == Quotes_init(cols, lens)
            IN /\ op' = [name |-> "Quotes", cols |-> cols, lens |-> lens]
               /\ outcome' = r
               /\ IF r.kind = "ok"
                  THEN Allocate("Quotes", cols, lens)
                  ELSE UNCHANGED <<heap, arrays, cont>>
    /\ UNCHANGED prev
    /\ UNCHANGED engine_vars

\* IndicatorResult({...}): a dictionary of numpy arrays
ConstructResult ==
    /\ op = NoOp /\ cont = NoContainer
    /\ \E S \in SUBSET Range(ResultKeys) :
         \E lens \in [S -> 0..MaxRows] :
            LET cols == InOrder(ResultKeys, S)
                r == IndicatorResult_init(cols, lens)
            IN /\ op' = [name |-> "IndicatorResult", cols |-> cols, lens |-> lens]
               /\ outcome' = r
               /\ Allocate("IndicatorResult", cols, lens)
    /\ UNCHANGED prev
    /\ UNCHANGED engine_vars

\* container[key] for a slice or an integer key, on the container the
\* caller holds
GetItem(key) ==
    /\ cont # NoContainer
    /\ op.name \in {"Quotes", "IndicatorResult", "kept"}
    /\ LET r == create_sliced(cont, arrays, key) IN
         /\ op' = key
         /\ outcome' = r.result
         /\ prev' = cont
         /\ IF r.result.kind = "ok"
            THEN /\ arrays' = arrays \o r.new
                 /\ cont' = [type |-> cont.type, cols |-> r.cols,
                             data |-> [k \in 1..Len(r.cols) |-> Len(arrays) + k]]
            ELSE /\ arrays' = arrays
                 /\ cont' = NoContainer
    /\ UNCHANGED heap
    /\ UNCHANGED engine_vars

GetSlice ==
    \E start \in Bounds(RowCount(cont)), stop \in Bounds(RowCount(cont)),
       step \in Steps :
        GetItem(SliceKey(start, stop, step))

GetIndex ==
    \E i \in (0 - (RowCount(cont) + 1))..(RowCount(cont) + 1) :
        GetItem(IndexKey(i))

\* The caller goes on with the container it obtained (first = quotes[::2],
\* then first[:5]) and lets go of the one it came from, whose array objects
\* are released; the buffers stay.
Keep ==
    /\ op.name \in {"slice", "index"}
    /\ outcome.kind = "ok"
    /\ arrays' = [k \in 1..Len(cont.cols) |-> arrays[cont.data[k]]]
    /\ cont' = [cont EXCEPT !.data = [k \in 1..Len(cont.cols) |-> k]]
    /\ prev' = NoContainer
    /\ op' = [name |-> "kept"]
    /\ UNCHANGED <<heap, outcome>>
    /\ UNCHANGED engine_vars

NextContainer ==
    ConstructQuotes \/ ConstructResult \/ GetSlice \/ GetIndex \/ Keep

SpecContainer == InitContainer /\ [][NextContainer]_vars

----------------------------------------------------------------------------
\* Writes and the writeable flag, on a container and on one taken from it.
\* The array objects of both containers stay alive, so the array that owns
\* the buffer of a view a is arrays[a.base].

\* the container the caller names: the one last obtained, or its origin
Target(name) == IF name = "cont" THEN cont ELSE prev

\* the value a caller writes: one no column holds
Written == Num(0)

\* DataSeries.writeable (getter): None for a container without columns,
\* else the flag of its first array
writeable_get(c, arrs) ==
    IF c.cols = <<>> THEN None ELSE Some(arrs[c.data[1]].writeable)

\* arr.flags.writeable = value: numpy refuses to make a view writeable when
\* the array that owns its buffer is not
flag_settable(a, arrs, id, value) ==
    \/ ~value
    \/ a.base = id
    \/ arrs[a.base].writeable

\* the flag setter applied to the first column only
writeable_set_first_column_only(c, arrs, value) ==
    IF c.cols = <<>> THEN [kind |-> "ok", arrays |-> arrs]
    ELSE IF ~flag_settable(arrs[c.data[1]], arrs, c.data[1], value)
    THEN [kind |-> "ValueError", arrays |-> arrs]
    ELSE [kind |-> "ok",
          arrays |-> [arrs EXCEPT ![c.data[1]].writeable = value]]

\* DataSeries.writeable (setter): the flag of every array, in column order,
\* up to the first array that refuses
writeable_set(c, arrs, value) ==
    LET refused == {k \in 1..Len(c.cols) :
                        ~flag_settable(arrs[c.data[k]], arrs, c.data[k], value)}
        stop == IF refused = {} THEN Len(c.cols) + 1
                ELSE CHOOSE k \in refused : \A j \in refused : k <= j
        done == {c.data[k] : k \in 1..(stop - 1)}
    IN [kind |-> IF refused = {} THEN "ok" ELSE "ValueError",
        arrays |-> [id \in 1..Len(arrs) |->
                       IF id \in done THEN [arrs[id] EXCEPT !.writeable = value]
                       ELSE arrs[id]]]

\* the caller holds a container, constructed or taken from another one it
\* also holds, and has written to neither
Holding ==
    /\ cont # NoContainer
    /\ op.name \in {"Quotes", "IndicatorResult", "slice", "index", "writeable"}

Held == IF prev = NoContainer THEN {"cont"} ELSE {"cont", "prev"}

\* container.writeable = value
SetWriteable ==
    /\ Holding
    /\ \E name \in Held, value \in BOOLEAN :
         LET r == writeable_set(Target(name), arrays, value) IN
         /\ op' = [name |-> "writeable", target |-> name, value |-> value]
         /\ outcome' = IF r.kind = "ok" THEN Completed
                       ELSE Thrown(r.kind, "cannot set WRITEABLE flag", "", <<>>)
         /\ arrays' = r.arrays
    /\ UNCHANGED <<heap, cont, prev>>
    /\ UNCHANGED engine_vars

\* container.column[row] = Written: refused by a read-only array
WriteColumn ==
    /\ Holding
    /\ \E name \in Held :
         \E k \in 1..Len(Target(name).cols) :
            \E row \in 1..Len(arrays[Target(name).data[k]].idx) :
               LET a == arrays[Target(name).data[k]] IN
               /\ op' = [name |-> "write", target |-> name, col |-> k, row |-> row]
               /\ IF a.writeable
                  THEN /\ heap' = [heap EXCEPT ![a.base][a.idx[row]] = Written]
                       /\ outcome' = Completed
                  ELSE /\ heap' = heap
                       /\ outcome' = Thrown("ValueError",
                                            "assignment destination is read-only",
                                            Target(name).cols[k], <<>>)
    /\ UNCHANGED <<arrays, cont, prev>>
    /\ UNCHANGED engine_vars

NextAlias ==
    \/ ConstructQuotes \/ ConstructResult
    \/ GetSlice \/ GetIndex
    \/ SetWriteable \/ WriteColumn

SpecAlias == InitContainer /\ [][NextAlias]_vars

----------------------------------------------------------------------------
\* The indicators ma, sma and ema (get_indicator_out of indicators/ma.py,
\* indicators/sma.py and indicators/ema.py).

\* position of column `name` in container c
ColIndex(c, name) == CHOOSE k \in 1..Len(c.cols) : c.cols[k] = name

\* the columns of container c: name -> elements
Columns(c) ==
    [name \in Range(c.cols) |-> Values(arrays[c.data[ColIndex(c, name)]])]

valid_values(fn) ==
    IF fn = "ma" THEN {"open", "high", "low", "close", "volume"}
    ELSE {"open", "high", "low", "close"}

\* MA_Type.cast(str_value); "ValueError" when it raises
MA_Type_cast(str_value) ==
    IF str_value \in {"ema", "sma", "mma", "ema0", "mma0"} THEN str_value
    ELSE IF str_value = "emaw" THEN "ema_warmup"
    ELSE IF str_value = "mmaw" THEN "mma_warmup"
    ELSE "ValueError"

\* how an indicator call ends: the exception class or "ok", the columns it
\* read from the quotes, whether the engine was invoked, and the series
\* `column` of the result
IndicatorFailed(kind, reads, engine) ==
    [kind |-> kind, reads |-> reads, engine |-> engine,
     column |-> "", out |-> <<>>, alias |-> FALSE]

IndicatorReturned(column, r, reads) ==
    [kind |-> "ok", reads |-> reads, engine |-> TRUE,
     column |-> column, out |-> r.out, alias |-> r.alias]

\* the name of the series in the result of indicator fn
OutputName(fn) == IF fn = "ma" THEN "move_average" ELSE fn

\* get_indicator_out that reads the column before it validates anything
get_indicator_out_reads_first(fn, columns, p, value, t) ==
    IF value \notin DOMAIN columns
    THEN {IndicatorFailed("DataSeriesNonFound", {}, FALSE)}
    ELSE IF p <= 0 \/ value \notin valid_values(fn)
            \/ (fn = "ma" /\ MA_Type_cast(t) = "ValueError")
    THEN {IndicatorFailed("BadParameterValue", {value}, FALSE)}
    ELSE LET source_values == columns[value]
             type == IF fn = "ma" THEN MA_Type_cast(t) ELSE fn
         IN IF fn = "ma" /\ Len(source_values) < p
            THEN {IndicatorFailed("TooLittleData", {value}, FALSE)}
            ELSE {IF r.kind = "ok"
                  THEN IndicatorReturned(OutputName(fn), r, {value})
                  ELSE IndicatorFailed(r.kind, {value}, TRUE) :
                  r \in ma_calculate(source_values, p, type)}

\* get_indicator_out(quotes, period, value[, ma_type]) of indicator fn on
\* quotes with the given columns; sma and ema take no ma_type
get_indicator_out(fn, columns, p, value, t) ==
    IF p <= 0
    THEN {IndicatorFailed("BadParameterValue", {}, FALSE)}
    ELSE IF value \notin valid_values(fn)
    THEN {IndicatorFailed("BadParameterValue", {}, FALSE)}
    ELSE IF fn = "ma" /\ MA_Type_cast(t) = "ValueError"
    THEN {IndicatorFailed("BadParameterValue", {}, FALSE)}
    ELSE IF value \notin DOMAIN columns
    THEN {IndicatorFailed("DataSeriesNonFound", {}, FALSE)}
    ELSE LET source_values == columns[value]
             type == IF fn = "ma" THEN MA_Type_cast(t) ELSE fn
         IN IF fn = "ma" /\ Len(source_values) < p
            THEN {IndicatorFailed("TooLittleData", {value}, FALSE)}
            ELSE {IF r.kind = "ok"
                  THEN IndicatorReturned(OutputName(fn), r, {value})
                  ELSE IndicatorFailed(r.kind, {value}, TRUE) :
                  r \in ma_calculate(source_values, p, type)}

\* the price series of the quotes an indicator is called on
QuoteSamples == {NaN, Num(0), Num(1)}

QuoteSeries == UNION {[1..n -> QuoteSamples] : n \in 0..MaxRows}

\* the arguments a caller passes
Periods == (0 - 1)..MaxPeriod

ValueNames == {"open", "close", "volume", "typical"}

TypeNames == {"sma", "ema", "mma", "ema0", "mma0", "emaw", "mmaw",
              "ema_warmup", "wma"}

\* a Quotes container exists, with or without a volume column; every column
\* holds the same series in a buffer of its own
InitIndicator ==
    /\ \E s \in QuoteSeries, cols \in {REQUIRED_COLUMNS, SubSeq(column_names, 1, 5)} :
         /\ heap = [k \in 1..Len(cols) |-> s]
         /\ arrays = [k \in 1..Len(cols) |-> NewArray(k, Len(s))]
         /\ cont = [type |-> "Quotes", cols |-> cols,
                    data |-> [k \in 1..Len(cols) |-> k]]
    /\ prev = NoContainer
    /\ op = NoOp
    /\ outcome = NoOutcome
    /\ EngineIdle

\* fn(quotes, p, value, t): the result is a new IndicatorResult whose one
\* series is the array the engine returned
Indicator(fn, p, value, t) ==
    /\ op = NoOp
    /\ cont.type = "Quotes"
    /\ \E r \in get_indicator_out(fn, Columns(cont), p, value, t) :
         /\ op' = [name |-> "indicator", fn |-> fn, period |-> p,
                   value |-> value, ma_type |-> t]
         /\ outcome' = [kind |-> r.kind, message |-> "", column |-> "",
                        lengths |-> <<>>, reads |-> r.reads, engine |-> r.engine]
         /\ prev' = cont
         /\ IF r.kind # "ok"
            THEN /\ UNCHANGED <<heap, arrays>>
                 /\ cont' = NoContainer
            ELSE IF r.alias
            THEN /\ UNCHANGED <<heap, arrays>>
                 /\ cont' = [type |-> "IndicatorResult", cols |-> <<r.column>>,
                             data |-> <<cont.data[ColIndex(cont, value)]>>]
            ELSE /\ heap' = Append(heap, r.out)
                 /\ arrays' = Append(arrays, NewArray(Len(heap) + 1, Len(r.out)))
                 /\ cont' = [type |-> "IndicatorResult", cols |-> <<r.column>>,
                             data |-> <<Len(arrays) + 1>>]
    /\ UNCHANGED engine_vars

MaIndicator ==
    \E p \in Periods, value \in ValueNames, t \in TypeNames :
        Indicator("ma", p, value, t)

SmaIndicator ==
    \E p \in Periods, value \in ValueNames : Indicator("sma", p, value, "sma")

EmaIndicator ==
    \E p \in Periods, value \in ValueNames : Indicator("ema", p, value, "ema")

NextIndicator == MaIndicator \/ SmaIndicator \/ EmaIndicator

SpecIndicator == InitIndicator /\ [][NextIndicator]_vars

----------------------------------------------------------------------------
\* Access to a column by name and by attribute (DataSeries.__getitem__ with
\* a string key, DataSeries.__getattr__), and the indicator adl, which reads
\* the volume column.

\* x / y for y # 0
Div(x, y) ==
    IF IsNaN(x) \/ IsNaN(y) THEN NaN
    ELSE Float(x[1] * y[2], x[2] * y[1])

\* raise PyTAExceptionDataSeriesNonFound(key)
PyTAExceptionDataSeriesNonFound(key) ==
    Thrown("DataSeriesNonFound", "", key, <<>>)

AttributeError(name) == Thrown("AttributeError", "", name, <<>>)

\* an access that returned the array object `id` of the container
Series(id) ==
    [kind |-> "series", message |-> "", column |-> "", lengths |-> <<>>,
     reads |-> {}, engine |-> FALSE, array |-> id]

\* an access that returned something else than a column: the value of the
\* attribute `name` of the object or of its class
Attribute(name) ==
    [kind |-> "attribute", message |-> "", column |-> name, lengths |-> <<>>,
     reads |-> {}, engine |-> FALSE, array |-> 0]

\* the names the object and its classes define, found by the ordinary
\* attribute lookup before __getattr__ is asked
defined_attributes ==
    {"_data", "_column_types", "_add_data", "_validate_data", "_check_lengths",
     "_create_sliced", "column_types", "writeable",
     "REQUIRED_COLUMNS", "ALLOWED_COLUMNS"}

\* name.startswith('_')
startswith_underscore(name) ==
    name \in {"_data", "_column_types", "_add_data", "_validate_data",
              "_check_lengths", "_create_sliced", "_signal"}

\* __getitem__ that answers a missing series with the first column
getitem_str_default(c, key) ==
    IF c.cols = <<>> THEN PyTAExceptionDataSeriesNonFound(key)
    ELSE IF key \notin Range(c.cols) THEN Series(c.data[1])
    ELSE Series(c.data[ColIndex(c, key)])

\* container[key] for a string key
getitem_str(c, key) ==
    IF key \notin Range(c.cols)
    THEN PyTAExceptionDataSeriesNonFound(key)
    ELSE Series(c.data[ColIndex(c, key)])

\* __getattr__ without the test on the underscore
getattr_missing_no_underscore_test(c, name) ==
    IF name \notin Range(c.cols) THEN AttributeError(name)
    ELSE Series(c.data[ColIndex(c, name)])

\* DataSeries.__getattr__(name)
getattr_missing(c, name) ==
    IF startswith_underscore(name) THEN AttributeError(name)
    ELSE IF name \notin Range(c.cols) THEN AttributeError(name)
    ELSE Series(c.data[ColIndex(c, name)])

\* container.name: the ordinary lookup, then __getattr__
getattr(c, name) ==
    IF name \in defined_attributes THEN Attribute(name)
    ELSE getattr_missing(c, name)

\* np.cumsum(a)
cumsum(a) == [i \in 1..Len(a) |-> ArraySum(SubSeq(a, 1, i))]

\* the close location value: ((close - low) - (high - close)) / hl_range,
\* and 0 where hl_range == 0
close_location_value(high, low, close) ==
    [i \in 1..Len(high) |->
        LET hl_range == Sub(high[i], low[i]) IN
        IF hl_range = Num(0) THEN Num(0)
        ELSE Div(Sub(Sub(close[i], low[i]), Sub(high[i], close[i])), hl_range)]

\* how a call of adl ends: the exception or Completed, the series adl, the
\* series adl_smooth when it was asked for, and whether adl_smooth is the
\* array adl itself
AdlFailed(result) ==
    [result |-> result, adl |-> <<>>, adl_smooth |-> None, alias |-> FALSE]

AdlReturned(adl, adl_smooth, alias) ==
    [result |-> Completed, adl |-> adl, adl_smooth |-> adl_smooth,
     alias |-> alias]

\* get_indicator_out(quotes, ma_period, ma_type) of indicators/adl.py on the
\* Quotes container c
adl_get_indicator_out(c, ma_period, t) ==
    IF ma_period # None /\ ma_period[1] <= 0
    THEN {AdlFailed(Thrown("BadParameterValue",
                           "ma_period must be greater than 0", "", <<>>))}
    ELSE IF ma_period # None /\ MA_Type_cast(t) = "ValueError"
    THEN {AdlFailed(Thrown("BadParameterValue", "ma_type", "", <<>>))}
    ELSE LET high == Values(arrays[getattr(c, "high").array])
             low == Values(arrays[getattr(c, "low").array])
             close == Values(arrays[getattr(c, "close").array])
             volume == getitem_str(c, "volume")
         IN IF volume.kind # "series" THEN {AdlFailed(volume)}
            ELSE LET clv == close_location_value(high, low, close)
                     vol == Values(arrays[volume.array])
                     adl == cumsum([i \in 1..Len(clv) |-> Mul(clv[i], vol[i])])
                 IN IF ma_period = None
                    THEN {AdlReturned(adl, None, FALSE)}
                    ELSE {IF r.kind = "ok"
                          THEN AdlReturned(adl, Some(r.out), r.alias)
                          ELSE AdlFailed(Thrown(r.kind, "", "", <<>>)) :
                          r \in ma_calculate(adl, ma_period[1], MA_Type_cast(t))}

\* the names a caller asks a container for
AccessNames ==
    {"open", "volume", "macd", "typical", "writeable", "_signal", "_data"}

\* the keys of the dictionary an IndicatorResult is made of
NamedKeys == <<"macd", "writeable", "_signal">>

AdlPeriods == {None} \cup {Some(p) : p \in Periods}

\* IndicatorResult({...}) with keys an attribute access tells apart
ConstructNamed ==
    /\ op = NoOp /\ cont = NoContainer
    /\ \E S \in SUBSET Range(NamedKeys) :
         \E lens \in [S -> 0..MaxRows] :
            LET cols == InOrder(NamedKeys, S)
                r == IndicatorResult_init(cols, lens)
            IN /\ op' = [name |-> "IndicatorResult", cols |-> cols, lens |-> lens]
               /\ outcome' = r
               /\ Allocate("IndicatorResult", cols, lens)
    /\ UNCHANGED prev
    /\ UNCHANGED engine_vars

\* the caller holds a container it constructed
Constructed ==
    /\ cont # NoContainer
    /\ op.name \in {"Quotes", "IndicatorResult"}

\* container[key] for a string key
GetColumn ==
    /\ Constructed
    /\ \E key \in AccessNames :
         /\ op' = [name |-> "getitem", key |-> key]
         /\ outcome' = getitem_str(cont, key)
    /\ UNCHANGED <<heap, arrays, cont, prev>>
    /\ UNCHANGED engine_vars

\* container.name
GetAttribute ==
    /\ Constructed
    /\ \E name \in AccessNames :
         /\ op' = [name |-> "getattr", key |-> name]
         /\ outcome' = getattr(cont, name)
    /\ UNCHANGED <<heap, arrays, cont, prev>>
    /\ UNCHANGED engine_vars

\* adl(quotes, ma_period, ma_type): the result is a new IndicatorResult with
\* the series adl and, when ma_period is given, adl_smooth
Adl ==
    /\ Constructed
    /\ cont.type = "Quotes"
    /\ \E ma_period \in AdlPeriods, t \in TypeNames :
         \E r \in adl_get_indicator_out(cont, ma_period, t) :
            /\ op' = [name |-> "adl", ma_period |-> ma_period, ma_type |-> t]
            /\ outcome' = r.result
            /\ prev' = cont
            /\ IF r.result.kind # "ok"
               THEN /\ UNCHANGED <<heap, arrays>>
                    /\ cont' = NoContainer
               ELSE IF r.adl_smooth = None
               THEN /\ heap' = Append(heap, r.adl)
                    /\ arrays' = Append(arrays, NewArray(Len(heap) + 1, Len(r.adl)))
                    /\ cont' = [type |-> "IndicatorResult", cols |-> <<"adl">>,
                                data |-> <<Len(arrays) + 1>>]
               ELSE IF r.alias
               THEN /\ heap' = Append(heap, r.adl)
                    /\ arrays' = Append(arrays, NewArray(Len(heap) + 1, Len(r.adl)))
                    /\ cont' = [type |-> "IndicatorResult",
                                cols |-> <<"adl", "adl_smooth">>,
                                data |-> <<Len(arrays) + 1, Len(arrays) + 1>>]
               ELSE /\ heap' = heap \o <<r.adl, r.adl_smooth[1]>>
                    /\ arrays' = arrays \o
                                   <<NewArray(Len(heap) + 1, Len(r.adl)),
                                     NewArray(Len(heap) + 2, Len(r.adl_smooth[1]))>>
                    /\ cont' = [type |-> "IndicatorResult",
                                cols |-> <<"adl", "adl_smooth">>,
                                data |-> <<Len(arrays) + 1, Len(arrays) + 2>>]
    /\ UNCHANGED engine_vars

NextAccess ==
    \/ ConstructQuotes \/ ConstructNamed
    \/ GetColumn \/ GetAttribute \/ Adl

SpecAccess == InitContainer /\ [][NextAccess]_vars

----------------------------------------------------------------------------
\* vocabulary of the properties

Done == pc = "done"

Returned == pc = "done" /\ ret.kind = "ok"

Failed(kind) == pc = "done" /\ ret.kind = kind

src == heap[source]

out == heap[ret.buf]

NaNFree(a) == \A j \in 1..Len(a) : ~IsNaN(a[j])

HasValid(a) == \E j \in 1..Len(a) : ~IsNaN(a[j])

\* 0-based index of the first non-NaN sample, Len(a) when there is none
FirstValid(a) ==
    IF HasValid(a)
    THEN CHOOSE i \in 0..(Len(a) - 1) :
            /\ ~IsNaN(a[i + 1])
            /\ \A j \in 0..(i - 1) : IsNaN(a[j + 1])
    ELSE Len(a)

\* arithmetic mean of a[lo .. hi] (0-based, both ends included)
Mean(a, lo, hi) == DivInt(ArraySum(SubSeq(a, lo + 1, hi + 1)), hi - lo + 1)

\* the nominal smoothing factor of an exponential variant
Alpha(t, p) == IF t \in {"ema", "ema0", "ema_warmup"} THEN Float(2, p + 1) ELSE Float(1, p)

\* out[i] = source[i]*alpha + out[i-1]*(1-alpha), NaN matching NaN
Recurrence(o, a, alpha, i) ==
    At(o, i) = Add(Mul(At(a, i), alpha), Mul(At(o, i - 1), Sub(Num(1), alpha)))

\* 0-based indices at which o is NaN
NaNIndices(o) == {i \in 0..(Len(o) - 1) : IsNaN(At(o, i))}

----------------------------------------------------------------------------
\* C1: for 1 <= p <= n and a NaN-free source, sma returns out with out[i] NaN
\* for i < p-1 and out[i] = (source[i-p+1] + ... + source[i]) / p for i >= p-1.
C1_SmaIsWindowMean ==
    (Done /\ ma_type = "sma" /\ NaNFree(src) /\ period <= Len(src)) =>
        /\ ret.kind = "ok"
        /\ Len(out) = Len(src)
        /\ \A i \in 0..(Len(src) - 1) :
              IF i < period - 1
              THEN IsNaN(At(out, i))
              ELSE At(out, i) = Mean(src, i - period + 1, i)

C1_Witness ==
    /\ Returned /\ ma_type = "sma" /\ NaNFree(src)
    /\ period = 2 /\ Len(src) = 4
    /\ At(out, 3) = Float(1, 2) /\ At(src, 3) = Num(1)

\* C2: ema and mma on a source with first non-NaN index s, n >= s+p and no
\* NaN from s on: out is NaN below s+p-1, out[s+p-1] is the mean of
\* source[s .. s+p-1], and the recurrence holds at every later index.
C2_EmaSeedAndRecurrence ==
    LET s == FirstValid(src) IN
    (Done /\ ma_type \in {"ema", "mma"} /\ Len(src) >= s + period
          /\ \A i \in s..(Len(src) - 1) : ~IsNaN(At(src, i))) =>
        /\ ret.kind = "ok"
        /\ Len(out) = Len(src)
        /\ \A i \in 0..(s + period - 2) : IsNaN(At(out, i))
        /\ At(out, s + period - 1) = Mean(src, s, s + period - 1)
        /\ \A i \in (s + period)..(Len(src) - 1) :
              Recurrence(out, src, Alpha(ma_type, period), i)

C2_Witness ==
    /\ Returned /\ ma_type = "mma" /\ period = 2
    /\ Len(src) = 4 /\ FirstValid(src) = 1 /\ NaNFree(SubSeq(src, 2, 4))
    /\ At(src, 1) # At(src, 2) /\ At(src, 3) # At(out, 2)
    /\ ~IsNaN(At(out, 3))

\* C3: ema0 and mma0 on a non-empty source with first non-NaN index s: out is
\* NaN below s, out[s] = source[s], and the recurrence holds at every i > s.
C3_Ema0SeedAndRecurrence ==
    LET s == FirstValid(src) IN
    (Done /\ ma_type \in {"ema0", "mma0"} /\ HasValid(src)) =>
        /\ ret.kind = "ok"
        /\ Len(out) = Len(src)
        /\ \A i \in 0..(s - 1) : IsNaN(At(out, i))
        /\ At(out, s) = At(src, s)
        /\ \A i \in (s + 1)..(Len(src) - 1) :
              Recurrence(out, src, Alpha(ma_type, period), i)

C3_Witness ==
    /\ Returned /\ ma_type = "ema0" /\ period = 2
    /\ Len(src) = 4 /\ FirstValid(src) = 1 /\ NaNFree(SubSeq(src, 2, 4))
    /\ At(src, 1) # At(src, 2) /\ At(out, 2) # At(src, 2)
    /\ ~IsNaN(At(out, 3))

\* e(k) of the warm-up: e(0) = a[s], e(k) = a[s+k]/(k+1) + e(k-1)*(1 - 1/(k+1))
RECURSIVE WarmupE(_, _, _)
WarmupE(a, s, k) ==
    IF k = 0 THEN At(a, s)
    ELSE Add(Mul(At(a, s + k), Float(1, k + 1)),
             Mul(WarmupE(a, s, k - 1), Sub(Num(1), Float(1, k + 1))))

Warmup == {"ema_warmup", "mma_warmup"}

\* the SMA-seeded variant with the same nominal alpha as a warm-up variant
Counterpart(t) == IF t = "ema_warmup" THEN "ema" ELSE "mma"

\* outcome of the engine on (a, p, t), for the variants with a single outcome
Outcome(a, p, t) == CHOOSE r \in ma_calculate(a, p, t) : TRUE

\* C4: ema_warmup and mma_warmup on a source with first non-NaN index s and
\* n >= s+p: out is NaN below s+p-1, out[s+p-1] = e(p-1), and the recurrence
\* with the nominal alpha holds at every later index.
C4_WarmupSeedAndRecurrence ==
    LET s == FirstValid(src) IN
    (Done /\ ma_type \in Warmup /\ HasValid(src) /\ Len(src) >= s + period) =>
        /\ ret.kind = "ok"
        /\ Len(out) = Len(src)
        /\ \A i \in 0..(s + period - 2) : IsNaN(At(out, i))
        /\ At(out, s + period - 1) = WarmupE(src, s, period - 1)
        /\ \A i \in (s + period)..(Len(src) - 1) :
              Recurrence(out, src, Alpha(ma_type, period), i)

\* C5 as stated: a returned output has the length of the source, and for a
\* NaN-free source its NaNs are exactly the first p-1 entries (none for ema0
\* and mma0).
C5_LengthAndNaNPrefix ==
    Returned =>
        /\ Len(out) = Len(src)
        /\ NaNFree(src) =>
              NaNIndices(out) =
                  IF ma_type \in {"ema0", "mma0"} THEN {} ELSE 0..(period - 2)

\* C5 amended: the same, the NaN prefix stated for non-empty NaN-free sources.
C5_LengthAndNaNPrefixNonEmpty ==
    Returned =>
        /\ Len(out) = Len(src)
        /\ (NaNFree(src) /\ Len(src) > 0) =>
              NaNIndices(out) =
                  IF ma_type \in {"ema0", "mma0"} THEN {} ELSE 0..(period - 2)

C5_Witness ==
    /\ Returned /\ ma_type = "mma_warmup" /\ period = 3
    /\ Len(src) = 4 /\ NaNFree(src)
    /\ NaNIndices(out) = {0, 1}

\* C6: sma with period 1 returns the source unchanged for every source, also
\* one with NaNs and the empty one: no failure, same length, same values.
C6_SmaPeriodOneIdentity ==
    (Done /\ ma_type = "sma" /\ period = 1) =>
        /\ ret.kind = "ok"
        /\ Len(out) = Len(src)
        /\ \A i \in 0..(Len(src) - 1) : At(out, i) = At(src, i)

C6_Witness ==
    /\ Returned /\ ma_type = "sma" /\ period = 1
    /\ Len(src) = 3 /\ IsNaN(At(src, 1)) /\ ~IsNaN(At(src, 2))
    /\ out = src

\* C7: sma with p >= 2 fails with the insufficient-data error carrying n and p
\* and produces no output when n < p; on a NaN-free source of length p it
\* succeeds with exactly one non-NaN value, at the last index.
C7_SmaInsufficientData ==
    (Done /\ ma_type = "sma" /\ period >= 2) =>
        /\ Len(src) < period =>
              /\ ret.kind = "TooLittleData"
              /\ ret.data_len = Len(src) /\ ret.required = period
              /\ DOMAIN heap = {source}
        /\ (Len(src) = period /\ NaNFree(src)) =>
              /\ ret.kind = "ok"
              /\ Len(out) = Len(src)
              /\ {i \in 0..(Len(out) - 1) : ~IsNaN(At(out, i))} = {Len(src) - 1}

C7_Witness ==
    /\ Failed("TooLittleData") /\ ma_type = "sma"
    /\ period = 3 /\ Len(src) = 2 /\ NaNFree(src)
    /\ ret.data_len = 2 /\ ret.required = 3

\* C8: ema and mma fail with the insufficient-data error exactly when
\* n < s + p (s the first non-NaN index, n when there is none) and succeed in
\* every other case.
C8_EmaFailsIffTooShort ==
    (Done /\ ma_type \in {"ema", "mma"}) =>
        IF Len(src) < FirstValid(src) + period
        THEN ret.kind = "TooLittleData"
        ELSE ret.kind = "ok"

C8_Witness ==
    /\ Failed("TooLittleData") /\ ma_type = "ema"
    /\ period = 2 /\ Len(src) = 3 /\ FirstValid(src) = 2

\* C9 as stated: ema_warmup / mma_warmup fail with the insufficient-data error
\* on exactly the inputs on which ema / mma fail, and succeed on the others.
C9_WarmupFailsLikeEma ==
    (Done /\ ma_type \in Warmup) =>
        ret.kind = Outcome(src, period, Counterpart(ma_type)).kind

\* C9 amended: the same for a source with a non-NaN sample; for a source with
\* none (the empty one included) the warm-up variants return an all-NaN output
\* of the source's length where ema / mma fail.
C9_WarmupFailsLikeEmaUnlessNoSample ==
    (Done /\ ma_type \in Warmup) =>
        IF HasValid(src)
        THEN ret.kind = Outcome(src, period, Counterpart(ma_type)).kind
        ELSE /\ ret.kind = "ok"
             /\ Len(out) = Len(src)
             /\ \A i \in 0..(Len(src) - 1) : IsNaN(At(out, i))
             /\ Outcome(src, period, Counterpart(ma_type)).kind = "TooLittleData"

C9_Witness ==
    /\ Failed("TooLittleData") /\ ma_type = "ema_warmup"
    /\ period = 3 /\ Len(src) = 3 /\ FirstValid(src) = 1

NonNaN(a) == SelectSeq(a, LAMBDA x : ~IsNaN(x))

\* C11 as stated: whenever ema or mma succeeds, the value at the seed index
\* s+p-1 is the mean of the first p non-NaN samples of the source.
C11_SeedIsMeanOfFirstValidSamples ==
    (Returned /\ ma_type \in {"ema", "mma"} /\ Len(NonNaN(src)) >= period) =>
        At(out, FirstValid(src) + period - 1) = Mean(NonNaN(src), 0, period - 1)

\* C11 amended: whenever ema or mma succeeds, the value at index s+p-1 is the
\* mean of source[s .. s+p-1], which is NaN when that window holds a NaN; it
\* is the mean of the first p non-NaN samples when the window is NaN-free.
C11_SeedIsMeanOfWindow ==
    LET s == FirstValid(src) IN
    (Returned /\ ma_type \in {"ema", "mma"}) =>
        /\ Len(src) >= s + period
        /\ At(out, s + period - 1) = Mean(src, s, s + period - 1)
        /\ NaNFree(SubSeq(src, s + 1, s + period)) =>
               At(out, s + period - 1) = Mean(NonNaN(src), 0, period - 1)

C11_Witness ==
    /\ Returned /\ ma_type = "mma" /\ period = 3
    /\ Len(src) = 4 /\ FirstValid(src) = 1 /\ NaNFree(SubSeq(src, 2, 4))
    /\ At(src, 1) # At(src, 3)
    /\ At(out, 3) = Mean(src, 1, 3) /\ At(out, 3) # At(src, 1)

\* C12: a call leaves the source as it was and returns an array that is not
\* the source, and a later write into the returned array leaves the source
\* as it was.
C12_OutputIsFreshBuffer ==
    [][/\ heap'[source] = heap[source]
       /\ ret'.kind = "ok" => ret'.buf # source]_vars

----------------------------------------------------------------------------
\* vocabulary of the container and indicator properties

\* an indicator has been called
Called == op.name = "indicator"

\* the elements of the k-th column of container c, and their number
ColValues(c, k) == Values(arrays[c.data[k]])

ColLen(c, k) == Len(arrays[c.data[k]].idx)

EqualLengths(c) ==
    \A j, k \in 1..Len(c.cols) : ColLen(c, j) = ColLen(c, k)

\* the columns of the construction requested last: not all of one length,
\* the required ones that are missing, the ones outside the allowed set
UnequalLengths ==
    \E i, j \in 1..Len(op.cols) : op.lens[op.cols[i]] # op.lens[op.cols[j]]

Missing == {c \in Range(REQUIRED_COLUMNS) : c \notin Range(op.cols)}

NotAllowed == {c \in Range(op.cols) : c \notin Range(ALLOWED_COLUMNS)}

\* "col=length" for every column of the construction requested last
AllLengths == [i \in 1..Len(op.cols) |-> <<op.cols[i], op.lens[op.cols[i]]>>]

Min(a, b) == IF a < b THEN a ELSE b

Max(a, b) == IF a > b THEN a ELSE b

\* col[start:stop:step] as Python defines it, in closed form: bounds below 0
\* count from the end, bounds are clamped to the column, and the result has
\* ceil(span / |step|) elements start, start+step, ...
RangeApplied(col, key) ==
    LET n == Len(col)
        step == IF key.step = None THEN 1 ELSE key.step[1]
        lo == IF step > 0 THEN 0 ELSE 0 - 1
        hi == IF step > 0 THEN n ELSE n - 1
        norm(b, dflt) ==
            IF b = None THEN dflt
            ELSE Max(lo, Min(hi, IF b[1] < 0 THEN b[1] + n ELSE b[1]))
        start == norm(key.start, IF step > 0 THEN 0 ELSE n - 1)
        stop == norm(key.stop, IF step > 0 THEN n ELSE 0 - 1)
        span == IF step > 0 THEN stop - start ELSE start - stop
        count == IF span <= 0 THEN 0 ELSE (span + Abs(step) - 1) \div Abs(step)
    IN [k \in 1..count |-> col[start + (k - 1) * step + 1]]

\* C13: ma, sma and ema called with period <= 0 fail with the bad-parameter
\* error without having read a column or invoked the engine, ma called with
\* an unknown ma_type fails with the bad-parameter error, and in both cases
\* no result container is produced.
C13_BadParameterBeforeWork ==
    Called =>
        /\ op.period <= 0 =>
              /\ outcome.kind = "BadParameterValue"
              /\ outcome.reads = {}
              /\ ~outcome.engine
              /\ cont = NoContainer
        /\ (op.fn = "ma" /\ op.ma_type \notin
                {"sma", "ema", "mma", "ema0", "mma0", "emaw", "mmaw"}) =>
              /\ outcome.kind = "BadParameterValue"
              /\ cont = NoContainer

C13_Witness ==
    /\ Called /\ op.fn = "ema" /\ op.period = 0 /\ op.value = "close"
    /\ Len(ColValues(prev, 4)) = MaxRows /\ NaNFree(ColValues(prev, 4))
    /\ outcome.kind = "BadParameterValue" /\ outcome.reads = {}
    /\ cont = NoContainer

\* C14: for every Quotes container and every period >= 1, ma with ma_type
\* 'sma' (resp. 'ema') on 'close' ends as sma (resp. ema) on 'close' does:
\* both return element-wise equal series or both fail.
C14_MaMatchesSmaAndEma ==
    (Called /\ op.fn = "ma" /\ op.period >= 1 /\ op.value = "close"
            /\ op.ma_type \in {"sma", "ema"}) =>
        \E other \in get_indicator_out(op.ma_type, Columns(prev), op.period,
                                       "close", op.ma_type) :
            IF outcome.kind = "ok"
            THEN other.kind = "ok" /\ ColValues(cont, 1) = other.out
            ELSE other.kind # "ok"

\* C15 as stated, for columns with allowed names: a Quotes construction with
\* columns of unequal length fails with the bad-series-data error listing the
\* length of every column, one without a required column fails with the
\* bad-series-data error naming the missing column, and no container is
\* created.
C15_UnequalOrMissingFails ==
    (op.name = "Quotes" /\ NotAllowed = {}) =>
        /\ UnequalLengths =>
              /\ outcome.kind = "BadSeriesData"
              /\ outcome.lengths = AllLengths
              /\ cont = NoContainer
        /\ Missing # {} =>
              /\ outcome.kind = "BadSeriesData"
              /\ outcome.column \in Missing
              /\ cont = NoContainer

\* C15 amended: for a Quotes construction from columns with allowed names:
\* without a required column it fails with the bad-series-data error naming
\* the first missing required column, whatever the lengths; with all required
\* columns and unequal lengths it fails with the bad-series-data error listing
\* the length of every column; no container is created.
C15_MissingThenUnequalFails ==
    (op.name = "Quotes" /\ NotAllowed = {}) =>
        /\ Missing # {} =>
              /\ outcome.kind = "BadSeriesData"
              /\ outcome.message = "Missing required column"
              /\ outcome.column = FirstNotIn(REQUIRED_COLUMNS, Range(op.cols))
              /\ cont = NoContainer
        /\ (Missing = {} /\ UnequalLengths) =>
              /\ outcome.kind = "BadSeriesData"
              /\ outcome.message = "Arrays have different lengths"
              /\ outcome.lengths = AllLengths
              /\ cont = NoContainer

C15_Witness ==
    /\ op.name = "Quotes" /\ Len(op.cols) = 6 /\ NotAllowed = {}
    /\ op.lens["close"] = 2 /\ op.lens["time"] = MaxRows
    /\ outcome.kind = "BadSeriesData"
    /\ outcome.lengths[4] = <<"close", 2>>
    /\ cont = NoContainer

\* C16: a Quotes construction with a column outside the allowed set fails
\* with the bad-series-data error naming that column.
C16_UnknownColumnIsSeriesError ==
    (op.name = "Quotes" /\ NotAllowed # {}) =>
        /\ outcome.kind = "BadSeriesData"
        /\ outcome.column \in NotAllowed
        /\ cont = NoContainer

\* C17: in every container that exists, Quotes or IndicatorResult, built by a
\* constructor or by slice and index access, all columns have the same
\* length, and a construction from columns of unequal length fails.
C17_ColumnsHaveOneLength ==
    /\ cont # NoContainer => EqualLengths(cont)
    /\ (op.name \in {"Quotes", "IndicatorResult"} /\ UnequalLengths) =>
          outcome.kind # "ok" /\ cont = NoContainer

\* C18 as stated: container[start:stop:step] on a container with at least one
\* column never fails and returns a container of the same type with the same
\* column names in which every column is the same range of the original
\* column; a non-strided range that is empty or out of range gives columns
\* of length 0.
C18_RangeAccess ==
    (op.name = "slice" /\ prev.cols # <<>>) =>
        /\ outcome.kind = "ok"
        /\ cont.type = prev.type
        /\ cont.cols = prev.cols
        /\ \A k \in 1..Len(prev.cols) :
              /\ ColValues(cont, k) = RangeApplied(ColValues(prev, k), op)
              /\ (op.step = None /\ op.start # None /\ op.stop # None
                    /\ (op.start[1] >= ColLen(prev, k)
                          \/ (0 <= op.stop[1] /\ op.stop[1] <= op.start[1]))) =>
                     ColLen(cont, k) = 0

\* C18 amended: the same for every range whose step is omitted or not 0.
C18_RangeAccessNonZeroStep ==
    (op.name = "slice" /\ prev.cols # <<>> /\ op.step # Some(0)) =>
        /\ outcome.kind = "ok"
        /\ cont.type = prev.type
        /\ cont.cols = prev.cols
        /\ \A k \in 1..Len(prev.cols) :
              /\ ColValues(cont, k) = RangeApplied(ColValues(prev, k), op)
              /\ (op.step = None /\ op.start # None /\ op.stop # None
                    /\ (op.start[1] >= ColLen(prev, k)
                          \/ (0 <= op.stop[1] /\ op.stop[1] <= op.start[1]))) =>
                     ColLen(cont, k) = 0

\* a reversed strided range of an already sliced Quotes container
C18_Witness ==
    /\ op.name = "slice" /\ op.step = Some(0 - 2) /\ op.start = None
    /\ prev.type = "Quotes" /\ Len(prev.cols) = 5
    /\ ColLen(prev, 1) = 3 /\ arrays[prev.data[5]].idx = <<3, 2, 1>>
    /\ outcome.kind = "ok" /\ cont.type = "Quotes"
    /\ ColValues(cont, 5) = <<ColValues(prev, 5)[3], ColValues(prev, 5)[1]>>

\* C19 as stated: container[a:b] with integers a and b on n rows has
\* max(0, min(b, n) - max(a, 0)) rows.
C19_SliceLength ==
    (op.name = "slice" /\ outcome.kind = "ok" /\ op.step = None
           /\ op.start # None /\ op.stop # None) =>
        \A k \in 1..Len(prev.cols) :
            ColLen(cont, k) =
                Max(0, Min(op.stop[1], ColLen(prev, k)) - Max(op.start[1], 0))

\* C19 amended: container[a:b] on n rows has max(0, min(b', n) - max(a', 0))
\* rows, where a' is a + n when a < 0 and a otherwise, and b' likewise.
C19_SliceLengthFromEnd ==
    (op.name = "slice" /\ outcome.kind = "ok" /\ op.step = None
           /\ op.start # None /\ op.stop # None) =>
        \A k \in 1..Len(prev.cols) :
            LET n == ColLen(prev, k)
                a == IF op.start[1] < 0 THEN op.start[1] + n ELSE op.start[1]
                b == IF op.stop[1] < 0 THEN op.stop[1] + n ELSE op.stop[1]
            IN ColLen(cont, k) = Max(0, Min(b, n) - Max(a, 0))

C19_Witness ==
    /\ op.name = "slice" /\ outcome.kind = "ok" /\ op.step = None
    /\ op.start = Some(0 - 2) /\ op.stop = Some(MaxRows + 1)
    /\ prev.type = "Quotes" /\ ColLen(prev, 1) = MaxRows
    /\ ColLen(cont, 1) = 2 /\ ColLen(cont, 4) = 2

\* C20: container[i] on columns of length n returns, for -n <= i < n, a
\* container of the same type whose columns have length 1 and hold the
\* original value at position i (n + i when i < 0), and fails with an index
\* error, returning nothing, for i >= n and for i < -n.
C20_IntegerIndex ==
    (op.name = "index" /\ prev.cols # <<>> /\ EqualLengths(prev)) =>
        LET n == ColLen(prev, 1)
            i == op.index
        IN IF 0 - n <= i /\ i < n
           THEN /\ outcome.kind = "ok"
                /\ cont.type = prev.type
                /\ cont.cols = prev.cols
                /\ \A k \in 1..Len(prev.cols) :
                      ColValues(cont, k) =
                          <<ColValues(prev, k)[(IF i < 0 THEN n + i ELSE i) + 1]>>
           ELSE /\ outcome.kind = "IndexError"
                /\ cont = NoContainer

C20_Witness ==
    /\ op.name = "index" /\ op.index = 0 - 1
    /\ prev.type = "Quotes" /\ ColLen(prev, 1) = MaxRows
    /\ outcome.kind = "ok"
    /\ ColValues(cont, 2) = <<ColValues(prev, 2)[MaxRows]>>
    /\ ColValues(cont, 1) # ColValues(cont, 2)

----------------------------------------------------------------------------
\* vocabulary of the aliasing properties

\* the container a write or a flag change was not addressed to
Other == IF op'.target = "cont" THEN prev ELSE cont

\* C21: a container taken from another by slice or index access is
\* independent of it: a write to a column of one, or a change of the
\* writeable flag of one, leaves every column value and every flag of the
\* other as they were.
C21_SlicedIsIndependent ==
    [][(prev # NoContainer /\ op'.name \in {"write", "writeable"}) =>
          \A k \in 1..Len(Other.cols) :
             LET id == Other.data[k] IN
             /\ [i \in 1..Len(arrays'[id].idx) |->
                    heap'[arrays'[id].base][arrays'[id].idx[i]]]
                   = ColValues(Other, k)
             /\ arrays'[id].writeable = arrays[id].writeable]_vars

----------------------------------------------------------------------------
\* vocabulary of the access properties

\* the parameters of the adl call pass its validation
AdlParametersValid ==
    \/ op.ma_period = None
    \/ op.ma_period[1] > 0 /\ MA_Type_cast(op.ma_type) # "ValueError"

\* C22: container['name'] returns the stored series of the column when it is
\* present and fails with the series-not-found error carrying the name when
\* it is absent, never with a default series; adl on quotes without a volume
\* column fails with that same error.
C22_ColumnAccess ==
    /\ op.name = "getitem" =>
          IF op.key \in Range(cont.cols)
          THEN outcome = Series(cont.data[ColIndex(cont, op.key)])
          ELSE outcome = PyTAExceptionDataSeriesNonFound(op.key)
    /\ (op.name = "adl" /\ "volume" \notin Range(prev.cols)) =>
          outcome = PyTAExceptionDataSeriesNonFound("volume")

\* C22 amended: as C22, but adl on quotes without a volume column fails with
\* the series-not-found error when its parameters are valid, and with the
\* bad-parameter error when they are not.
C22_ColumnAccessValidParameters ==
    /\ op.name = "getitem" =>
          IF op.key \in Range(cont.cols)
          THEN outcome = Series(cont.data[ColIndex(cont, op.key)])
          ELSE outcome = PyTAExceptionDataSeriesNonFound(op.key)
    /\ (op.name = "adl" /\ "volume" \notin Range(prev.cols)) =>
          IF AdlParametersValid
          THEN outcome = PyTAExceptionDataSeriesNonFound("volume")
          ELSE outcome.kind = "BadParameterValue"

C22_Witness ==
    /\ op.name = "adl" /\ op.ma_period = Some(2) /\ op.ma_type = "ema"
    /\ prev.type = "Quotes" /\ prev.cols = REQUIRED_COLUMNS
    /\ ColLen(prev, 1) = MaxRows
    /\ outcome = PyTAExceptionDataSeriesNonFound("volume")
    /\ cont = NoContainer

\* C23: container.name behaves as container['name']: for a name not starting
\* with an underscore it returns the same series when the column is present
\* and fails with the same series-not-found error when it is absent; a name
\* starting with an underscore never resolves to a column, even when a
\* column of that name is stored.
C23_AttributeAccess ==
    op.name = "getattr" =>
        IF startswith_underscore(op.key) THEN outcome.kind # "series"
        ELSE IF op.key \in Range(cont.cols)
        THEN outcome = Series(cont.data[ColIndex(cont, op.key)])
        ELSE outcome = PyTAExceptionDataSeriesNonFound(op.key)

\* C23 amended: for a name that does not start with an underscore and is not
\* an attribute the container class defines, container.name returns the
\* series container['name'] returns when the column is present and fails
\* with an attribute error when it is absent; the name of an attribute the
\* class defines gives that attribute, and a name starting with an
\* underscore never resolves to a column, even when such a column is stored.
C23_AttributeAccessAttributeError ==
    op.name = "getattr" =>
        IF startswith_underscore(op.key) THEN outcome.kind # "series"
        ELSE IF op.key \in defined_attributes THEN outcome = Attribute(op.key)
        ELSE IF op.key \in Range(cont.cols)
        THEN outcome = Series(cont.data[ColIndex(cont, op.key)])
        ELSE outcome = AttributeError(op.key)

C23_Witness ==
    /\ op.name = "getattr" /\ op.key = "_signal"
    /\ cont.type = "IndicatorResult" /\ "_signal" \in Range(cont.cols)
    /\ ColLen(cont, ColIndex(cont, "_signal")) = MaxRows
    /\ outcome = AttributeError("_signal")

\* every array of container c has the writeable flag v
FlagsAre(c, v) == \A k \in 1..Len(c.cols) : arrays[c.data[k]].writeable = v

\* C24: a freshly constructed Quotes container is writeable; after the
\* writeable flag of a container is set to v, every column of it is in state
\* v and reading the flag returns v, for any sequence of toggles.
C24_WriteableFlag ==
    /\ (op.name = "Quotes" /\ outcome.kind = "ok") =>
          /\ writeable_get(cont, arrays) = Some(TRUE)
          /\ FlagsAre(cont, TRUE)
    /\ op.name = "writeable" =>
          /\ FlagsAre(Target(op.target), op.value)
          /\ writeable_get(Target(op.target), arrays) = Some(op.value)

\* C24 amended: a freshly constructed Quotes container is writeable; a
\* change of the flag to v is refused with ValueError only when v is true and
\* the container was taken from one that is read-only by now; otherwise
\* every column of the container is in state v afterwards and reading the
\* flag returns v, or nothing when the container has no columns; a write to
\* any column is rejected exactly when the flag of the container reads false.
C24_WriteableFlagAccepted ==
    /\ (op.name = "Quotes" /\ outcome.kind = "ok") =>
          /\ writeable_get(cont, arrays) = Some(TRUE)
          /\ FlagsAre(cont, TRUE)
    /\ op.name = "writeable" =>
          IF outcome.kind = "ok"
          THEN /\ FlagsAre(Target(op.target), op.value)
               /\ writeable_get(Target(op.target), arrays) =
                     IF Target(op.target).cols = <<>> THEN None
                     ELSE Some(op.value)
          ELSE /\ outcome.kind = "ValueError"
               /\ op.value /\ op.target = "cont" /\ prev # NoContainer
               /\ FlagsAre(prev, FALSE)
    /\ op.name = "write" =>
          (outcome.kind = "ValueError" <=>
              writeable_get(Target(op.target), arrays) = Some(FALSE))

C24_Witness ==
    /\ op.name = "write" /\ op.target = "cont" /\ op.col = 3
    /\ cont.type = "Quotes" /\ prev = NoContainer
    /\ ColLen(cont, 3) = MaxRows
    /\ writeable_get(cont, arrays) = Some(FALSE)
    /\ outcome.kind = "ValueError"

----------------------------------------------------------------------------
\* vocabulary of the NaN properties

Exponential == {"ema", "mma", "ema0", "mma0", "ema_warmup", "mma_warmup"}

\* the index the running estimate is seeded at: the first non-NaN sample for
\* ema0 and mma0, p - 1 samples later for the other variants
SeedIndex ==
    IF ma_type \in {"ema0", "mma0"} THEN FirstValid(src)
    ELSE FirstValid(src) + period - 1

\* C25: in the six exponential variants, if source[j] is NaN at an index j
\* greater than the seed index, out[i] is NaN for every i >= j: later
\* non-NaN samples do not reseed the running estimate.
C25_NaNPoisonsLaterOutputs ==
    (Returned /\ ma_type \in Exponential) =>
        \A j \in (SeedIndex + 1)..(Len(src) - 1) :
            IsNaN(At(src, j)) =>
                \A i \in j..(Len(src) - 1) : IsNaN(At(out, i))

C25_Witness ==
    /\ Returned /\ ma_type = "ema" /\ period = 2
    /\ Len(src) = 4 /\ NaNFree(SubSeq(src, 1, 2))
    /\ IsNaN(At(src, 2)) /\ ~IsNaN(At(src, 3))
    /\ ~IsNaN(At(out, 1)) /\ IsNaN(At(out, 2)) /\ IsNaN(At(out, 3))

\* the window source[lo .. hi] holds a NaN
WindowHasNaN(a, lo, hi) == \E k \in lo..hi : IsNaN(At(a, k))

\* C26: sma with p >= 2: for every i >= p-1, out[i] is NaN when the window
\* source[i-p+1 .. i] holds a NaN and the mean of the window when it holds
\* none, whatever the source holds before the window.
C26_SmaWindowNaN ==
    (Returned /\ ma_type = "sma" /\ period >= 2) =>
        \A i \in (period - 1)..(Len(src) - 1) :
            IF WindowHasNaN(src, i - period + 1, i)
            THEN IsNaN(At(out, i))
            ELSE At(out, i) = Mean(src, i - period + 1, i)

C26_Witness ==
    /\ Returned /\ ma_type = "sma" /\ period = 2
    /\ Len(src) = 4 /\ IsNaN(At(src, 0)) /\ NaNFree(SubSeq(src, 2, 4))
    /\ At(src, 2) # At(src, 3)
    /\ IsNaN(At(out, 1))
    /\ At(out, 2) = Mean(src, 1, 2) /\ At(out, 3) = Mean(src, 2, 3)
    /\ At(out, 2) # At(out, 3)

\* C27: for ema0 and mma0 the leading NaNs of the source (the samples before
\* the first valid one) appear as NaN in the output at every index up to and
\* including the seed index.
C27_LeadingNaNsToSeedIncluded ==
    (Returned /\ ma_type \in {"ema0", "mma0"} /\ FirstValid(src) >= 1) =>
        \A i \in 0..Min(SeedIndex, Len(src) - 1) : IsNaN(At(out, i))

\* C27 amended: for ema0 and mma0 the output is NaN at every index before the
\* seed index, and at the seed index it is the first valid sample.
C27_LeadingNaNsToSeedExcluded ==
    (Returned /\ ma_type \in {"ema0", "mma0"} /\ FirstValid(src) >= 1) =>
        /\ \A i \in 0..Min(SeedIndex - 1, Len(src) - 1) : IsNaN(At(out, i))
        /\ SeedIndex < Len(src) =>
              /\ ~IsNaN(At(out, SeedIndex))
              /\ At(out, SeedIndex) = At(src, SeedIndex)

C27_Witness ==
    /\ Returned /\ ma_type = "mma0" /\ period = 2
    /\ Len(src) = 4 /\ FirstValid(src) = 2
    /\ At(src, 2) # At(src, 3)
    /\ IsNaN(At(out, 0)) /\ IsNaN(At(out, 1))
    /\ At(out, 2) = At(src, 2) /\ ~IsNaN(At(out, 3))

\* x <= y for two floats that are not NaN
Leq(x, y) == x[1] * y[2] <= y[1] * x[2]

\* min(a[0 .. i]) <= x <= max(a[0 .. i]) for a NaN-free a
WithinSeen(a, i, x) ==
    /\ ~IsNaN(x)
    /\ \E lo \in 0..i : Leq(At(a, lo), x)
    /\ \E hi \in 0..i : Leq(x, At(a, hi))

----------------------------------------------------------------------------
\* The indicator parabolic_sar (indicators/parabolic_sar.py).  The running
\* call keeps its parameters and the local variables of calc_paraboic in op;
\* the arrays sars and signals are buffers of the heap.

MaxBars == 4

\* x < y for two floats that are not NaN
Lt(x, y) == x[1] * y[2] < y[1] * x[2]

fmin(x, y) == IF Lt(y, x) THEN y ELSE x

fmax(x, y) == IF Lt(x, y) THEN y ELSE x

\* an entry of np.empty that has not been written yet
Empty == "empty"

\* the prices of a bar
Prices == {Num(1), Num(2), Num(3)}

\* (start, maximum, increment) of a call: valid ones, with the factor
\* reaching the maximum early, late and at once, and one for each check
SarParameters ==
    {<<Float(1, 4), Float(1, 2), Float(1, 4)>>,
     <<Float(1, 4), Num(1), Float(1, 2)>>,
     <<Float(1, 2), Float(1, 2), Float(1, 4)>>,
     <<Num(0), Float(1, 2), Float(1, 4)>>,
     <<Float(1, 4), Num(0), Float(1, 4)>>,
     <<Float(1, 4), Float(1, 2), Num(0)>>,
     <<Float(1, 2), Float(1, 4), Float(1, 4)>>}

\* the checks of get_indicator_out before the calculation
parabolic_sar_check(start, maximum, increment, data_len) ==
    IF Leq(start, Num(0))
    THEN Thrown("BadParameterValue", "start must be greater than 0", "", <<>>)
    ELSE IF Leq(maximum, Num(0))
    THEN Thrown("BadParameterValue", "maximum must be greater than 0", "", <<>>)
    ELSE IF Leq(increment, Num(0))
    THEN Thrown("BadParameterValue", "increment must be greater than 0", "", <<>>)
    ELSE IF Lt(maximum, start)
    THEN Thrown("BadParameterValue", "maximum must be >= start", "", <<>>)
    ELSE IF data_len < 3
    THEN Thrown("TooLittleData", "data length < 3", "", <<data_len, 3>>)
    ELSE Completed

\* the acceleration factor raised without the cap of the maximum
raised_factor_uncapped(acceleration_factor, increment, maximum) ==
    Add(acceleration_factor, increment)

\* min(acceleration_factor + increment, maximum)
raised_factor(acceleration_factor, increment, maximum) ==
    fmin(Add(acceleration_factor, increment), maximum)

\* the local variables of calc_paraboic before its loop
calc_paraboic_start(highs, lows, start) ==
    [is_bullish |-> TRUE, acceleration_factor |-> start,
     sar |-> At(lows, 0), extreme |-> At(highs, 0), signal |-> 0]

\* the body of the loop of calc_paraboic for index i on the locals l; signal
\* is the value of signals[i] after it
calc_paraboic_step(l, highs, lows, i, start, maximum, increment) ==
    LET moved == Add(l.sar, Mul(l.acceleration_factor, Sub(l.extreme, l.sar))) IN
    IF l.is_bullish
    THEN LET sar == IF i > 1
                    THEN fmin(fmin(moved, At(lows, i - 1)), At(lows, i - 2))
                    ELSE moved
         IN IF Lt(At(lows, i), sar)
            THEN [is_bullish |-> FALSE, acceleration_factor |-> start,
                  sar |-> l.extreme, extreme |-> At(lows, i), signal |-> 0 - 1]
            ELSE IF Lt(l.extreme, At(highs, i))
            THEN [is_bullish |-> TRUE,
                  acceleration_factor |->
                      raised_factor(l.acceleration_factor, increment, maximum),
                  sar |-> sar, extreme |-> At(highs, i), signal |-> 0]
            ELSE [is_bullish |-> TRUE,
                  acceleration_factor |-> l.acceleration_factor,
                  sar |-> sar, extreme |-> l.extreme, signal |-> 0]
    ELSE LET sar == IF i > 1
                    THEN fmax(fmax(moved, At(highs, i - 1)), At(highs, i - 2))
                    ELSE moved
         IN IF Lt(sar, At(highs, i))
            THEN [is_bullish |-> TRUE, acceleration_factor |-> start,
                  sar |-> l.extreme, extreme |-> At(highs, i), signal |-> 1]
            ELSE IF Lt(At(lows, i), l.extreme)
            THEN [is_bullish |-> FALSE,
                  acceleration_factor |->
                      raised_factor(l.acceleration_factor, increment, maximum),
                  sar |-> sar, extreme |-> At(lows, i), signal |-> 0]
            ELSE [is_bullish |-> FALSE,
                  acceleration_factor |-> l.acceleration_factor,
                  sar |-> sar, extreme |-> l.extreme, signal |-> 0]

\* quotes.high and quotes.low of the quotes the indicator is called on
SarHighs == Values(arrays[getattr(IF op = NoOp THEN cont ELSE prev, "high").array])

SarLows == Values(arrays[getattr(IF op = NoOp THEN cont ELSE prev, "low").array])

\* a Quotes container of 0..MaxBars bars exists; open and close hold the
\* series of high and low, in buffers of their own
InitSar ==
    /\ \E n \in 0..MaxBars :
         \E hs \in [1..n -> Prices], ls \in [1..n -> Prices] :
            /\ heap = <<hs, hs, ls, ls>>
            /\ arrays = [k \in 1..4 |-> NewArray(k, n)]
    /\ cont = [type |-> "Quotes", cols |-> REQUIRED_COLUMNS, data |-> <<1, 2, 3, 4>>]
    /\ prev = NoContainer
    /\ op = NoOp
    /\ outcome = NoOutcome
    /\ EngineIdle

\* parabolic_sar(quotes, start, maximum, increment) up to the loop of
\* calc_paraboic: the checks, the allocation of sars and signals, the locals
ParabolicSar ==
    /\ op = NoOp /\ cont.type = "Quotes"
    /\ \E par \in SarParameters :
         LET r == parabolic_sar_check(par[1], par[2], par[3], Len(SarHighs))
             call == [name |-> "parabolic_sar", start |-> par[1],
                      maximum |-> par[2], increment |-> par[3]]
         IN IF r.kind # "ok"
            THEN /\ op' = [at |-> "raised"] @@ call
                 /\ outcome' = r
                 /\ cont' = NoContainer
                 /\ heap' = heap
            ELSE /\ op' = [at |-> "loop", i |-> 1,
                           sars |-> Len(heap) + 1, signals |-> Len(heap) + 2,
                           locals |-> calc_paraboic_start(SarHighs, SarLows, par[1])]
                          @@ call
                 /\ outcome' = NoOutcome
                 /\ cont' = NoContainer
                 /\ heap' = heap \o <<[k \in 1..Len(SarHighs) |-> Empty],
                                      [k \in 1..Len(SarHighs) |-> 0]>>
    /\ prev' = cont
    /\ UNCHANGED arrays
    /\ UNCHANGED engine_vars

\* one iteration of `for i in range(1, len(highs))`, or its end
SarLoop ==
    /\ op.name = "parabolic_sar" /\ op.at = "loop"
    /\ IF op.i < Len(SarHighs)
       THEN LET l == calc_paraboic_step(op.locals, SarHighs, SarLows, op.i,
                                        op.start, op.maximum, op.increment)
            IN /\ op' = [op EXCEPT !.i = op.i + 1, !.locals = l]
               /\ heap' = [heap EXCEPT ![op.sars][op.i + 1] = l.sar,
                                       ![op.signals][op.i + 1] = l.signal]
       ELSE /\ op' = [op EXCEPT !.at = "clear", !.i = 0]
            /\ heap' = heap
    /\ UNCHANGED <<arrays, cont, prev, outcome>>
    /\ UNCHANGED engine_vars

\* one iteration of `for i, signal in enumerate(signals)`: the entries up
\* to and including the first signal become NaN and 0
SarClear ==
    /\ op.name = "parabolic_sar" /\ op.at = "clear"
    /\ LET signal == heap[op.signals][op.i + 1] IN
         /\ heap' = [heap EXCEPT ![op.sars][op.i + 1] = NaN,
                                 ![op.signals][op.i + 1] = 0]
         /\ op' = IF signal # 0 \/ op.i + 1 = Len(SarHighs)
                  THEN [op EXCEPT !.at = "return"]
                  ELSE [op EXCEPT !.i = op.i + 1]
    /\ UNCHANGED <<arrays, cont, prev, outcome>>
    /\ UNCHANGED engine_vars

\* return IndicatorResult({'sar': parabolic_sar, 'signal': signals})
SarReturn ==
    /\ op.name = "parabolic_sar" /\ op.at = "return"
    /\ op' = [op EXCEPT !.at = "done"]
    /\ outcome' = Completed
    /\ arrays' = arrays \o <<NewArray(op.sars, Len(heap[op.sars])),
                             NewArray(op.signals, Len(heap[op.signals]))>>
    /\ cont' = [type |-> "IndicatorResult", cols |-> <<"sar", "signal">>,
                data |-> <<Len(arrays) + 1, Len(arrays) + 2>>]
    /\ UNCHANGED <<heap, prev>>
    /\ UNCHANGED engine_vars

NextSar == ParabolicSar \/ SarLoop \/ SarClear \/ SarReturn

SpecSar == InitSar /\ [][NextSar]_vars

----------------------------------------------------------------------------
\* vocabulary of the parabolic_sar property

\* no two successive non-zero entries of s are equal
Alternates(s) ==
    \A a, b \in 1..Len(s) :
        (a < b /\ s[a] # 0 /\ s[b] # 0 /\ \A c \in (a + 1)..(b - 1) : s[c] = 0)
            => s[a] # s[b]

\* parabolic_sar was called with 0 < start <= maximum and increment > 0 on
\* at least three bars
SarCalled ==
    /\ op.name = "parabolic_sar"
    /\ Lt(Num(0), op.start) /\ Leq(op.start, op.maximum)
    /\ Lt(Num(0), op.increment)
    /\ Len(SarHighs) >= 3

\* C29: parabolic_sar on at least three bars with 0 < start <= maximum and
\* increment > 0 returns a signal series whose entries are in {-1, 0, 1} and
\* whose non-zero entries alternate in sign, and the acceleration factor of
\* every step is within [start, maximum].
C29_SignalsAlternate ==
    SarCalled =>
        /\ op.at # "raised"
        /\ \A k \in 1..Len(heap[op.signals]) :
              heap[op.signals][k] \in {0 - 1, 0, 1}
        /\ Leq(op.start, op.locals.acceleration_factor)
        /\ Leq(op.locals.acceleration_factor, op.maximum)
        /\ op.at = "done" =>
              /\ outcome.kind = "ok"
              /\ cont.cols = <<"sar", "signal">>
              /\ Alternates(ColValues(cont, 2))

C29_Witness ==
    /\ SarCalled /\ op.at = "done"
    /\ ColValues(cont, 2) = <<0, 0, 1, 0 - 1>>
    /\ Lt(op.start, op.maximum)
    /\ IsNaN(ColValues(cont, 1)[2]) /\ ~IsNaN(ColValues(cont, 1)[3])

----------------------------------------------------------------------------
\* The indicator zigzag (indicators/zigzag.py).  The running call keeps its
\* parameters, its position and i_valid in op; the arrays pivots and
\* pivot_types are buffers of the heap.

\* np.argmax(a): the 0-based index of the first largest element of a
argmax(a) ==
    CHOOSE k \in 0..(Len(a) - 1) :
        /\ \A j \in 0..(Len(a) - 1) : Leq(At(a, j), At(a, k))
        /\ \A j \in 0..(k - 1) : Lt(At(a, j), At(a, k))

\* np.argmin(a): the 0-based index of the first smallest element of a
argmin(a) ==
    CHOOSE k \in 0..(Len(a) - 1) :
        /\ \A j \in 0..(Len(a) - 1) : Leq(At(a, k), At(a, j))
        /\ \A j \in 0..(k - 1) : Lt(At(a, k), At(a, j))

\* the inner `while True` of find_up_corner: the corner moves to the highest
\* of the next depth bars until it stays
RECURSIVE up_corner_from(_, _, _)
up_corner_from(i, high, depth) ==
    LET i_up_corner ==
            i + argmax(Slice(high, i, IF i + depth < Len(high) THEN i + depth
                                      ELSE Len(high)))
    IN IF i_up_corner = i THEN i ELSE up_corner_from(i_up_corner, high, depth)

RECURSIVE down_corner_from(_, _, _)
down_corner_from(i, low, depth) ==
    LET i_down_corner ==
            i + argmin(Slice(low, i, IF i + depth < Len(low) THEN i + depth
                                     ELSE Len(low)))
    IN IF i_down_corner = i THEN i ELSE down_corner_from(i_down_corner, low, depth)

\* the loop of find_up_corner at index i with the corner at i_up_corner:
\* <<i_up_corner, index of the next point>>
RECURSIVE up_corner_scan(_, _, _, _, _, _)
up_corner_scan(i, i_up_corner, high, low, delta, depth) ==
    IF i >= Len(high) THEN <<i_up_corner, Len(high)>>
    ELSE IF Lt(At(high, i_up_corner), At(high, i))
    THEN up_corner_scan(up_corner_from(i, high, depth) + 1,
                        up_corner_from(i, high, depth), high, low, delta, depth)
    ELSE IF Leq(delta, Div(Sub(At(high, i_up_corner), At(low, i)),
                           At(high, i_up_corner)))
    THEN <<i_up_corner, i>>
    ELSE up_corner_scan(i + 1, i_up_corner, high, low, delta, depth)

find_up_corner(i_point, high, low, delta, depth) ==
    up_corner_scan(i_point + 1, i_point, high, low, delta, depth)

RECURSIVE down_corner_scan(_, _, _, _, _, _)
down_corner_scan(i, i_down_corner, high, low, delta, depth) ==
    IF i >= Len(high) THEN <<i_down_corner, Len(high)>>
    ELSE IF Lt(At(low, i), At(low, i_down_corner))
    THEN down_corner_scan(down_corner_from(i, low, depth) + 1,
                          down_corner_from(i, low, depth), high, low, delta, depth)
    ELSE IF Leq(delta, Div(Sub(At(high, i), At(low, i_down_corner)),
                           At(low, i_down_corner)))
    THEN <<i_down_corner, i>>
    ELSE down_corner_scan(i + 1, i_down_corner, high, low, delta, depth)

find_down_corner(i_point, high, low, delta, depth) ==
    down_corner_scan(i_point + 1, i_point, high, low, delta, depth)

\* the loop of calc_pivots from i_point: the arrays as it leaves them and the
\* index it returns when checking, None otherwise
RECURSIVE calc_pivots_from(_, _, _, _, _, _, _, _, _)
calc_pivots_from(i_point, direction, high, low, delta, pivots, pivot_types, depth, checking) ==
    IF i_point >= Len(high)
    THEN [pivots |-> pivots, pivot_types |-> pivot_types, result |-> None]
    ELSE LET corner == IF direction > 0
                       THEN find_up_corner(i_point, high, low, delta, depth)
                       ELSE find_down_corner(i_point, high, low, delta, depth)
             type == IF direction > 0 THEN 1 ELSE 0 - 1
             price == IF direction > 0 THEN At(high, corner[1])
                      ELSE At(low, corner[1])
         IN IF corner[2] >= Len(high)
            THEN [pivots |-> pivots, pivot_types |-> pivot_types, result |-> None]
            ELSE IF checking /\ At(pivot_types, corner[1]) = type
            THEN [pivots |-> pivots, pivot_types |-> pivot_types,
                  result |-> Some(corner[1])]
            ELSE calc_pivots_from(corner[2], 0 - direction, high, low, delta,
                                  [pivots EXCEPT ![corner[1] + 1] = price],
                                  [pivot_types EXCEPT ![corner[1] + 1] = type],
                                  depth, checking)

calc_pivots(direction, high, low, delta, pivots, pivot_types, depth, checking) ==
    calc_pivots_from(0, direction, high, low, delta, pivots, pivot_types,
                     depth, checking)

\* the entries before index i set to v
Cleared(a, i, v) == [k \in 1..Len(a) |-> IF k - 1 < i THEN v ELSE a[k]]

\* the block `if not end_points and i_valid is not None` of
\* get_indicator_out; .min() and .max() of an empty slice raise ValueError
trim_to_valid(i_valid, high, low, delta, pivots, pivot_types) ==
    IF i_valid = 0
    THEN [kind |-> "ValueError", pivots |-> pivots, pivot_types |-> pivot_types]
    ELSE LET before == IF At(pivot_types, i_valid) > 0
                       THEN At(low, argmin(Slice(low, 0, i_valid)))
                       ELSE At(high, argmax(Slice(high, 0, i_valid)))
             change == IF At(pivot_types, i_valid) > 0
                       THEN Div(Sub(At(pivots, i_valid), before), before)
                       ELSE Div(Sub(before, At(pivots, i_valid)), before)
             first == IF ~IsNaN(change) /\ Lt(change, delta)
                      THEN i_valid + 1 ELSE i_valid
         IN [kind |-> "ok", pivots |-> Cleared(pivots, first, NaN),
             pivot_types |-> Cleared(pivot_types, first, 0)]

\* the index of the last pivot, 0 when there is none (add_last_point)
last_point(pivot_types) ==
    LET marked == {k \in 0..(Len(pivot_types) - 1) : At(pivot_types, k) # 0}
    IN IF marked = {} THEN 0
       ELSE CHOOSE k \in marked : \A j \in marked : j <= k

\* how add_last_point leaves the arrays
LastPointAdded(pivots, pivot_types) ==
    [kind |-> "ok", pivots |-> pivots, pivot_types |-> pivot_types]

\* add_last_point after a last high pivot at i_last_point
add_last_low(i_last_point, pivot_types, pivots, high, low, delta, depth) ==
    LET n_bars == Len(high)
        v_max == At(high, i_last_point)
        i_min == i_last_point + depth
                     + argmin(Slice(low, i_last_point + depth, n_bars))
        v_min == At(low, i_min)
        types == [pivot_types EXCEPT ![i_min + 1] = 0 - 1]
        prices == [pivots EXCEPT ![i_min + 1] = v_min]
    IN IF Lt(Div(Sub(v_max, v_min), v_max), delta) THEN LastPointAdded(prices, types)
       ELSE IF i_min + depth >= n_bars THEN LastPointAdded(prices, types)
       ELSE LET i_current_max == i_min + argmax(Slice(high, i_min + depth, n_bars))
            IN LastPointAdded(
                   [prices EXCEPT ![i_current_max + 1] = At(high, i_current_max)],
                   [types EXCEPT ![i_current_max + 1] = 1])

\* add_last_point after a last low pivot at i_last_point
add_last_high(i_last_point, pivot_types, pivots, high, low, delta, depth) ==
    LET n_bars == Len(high)
        v_min == At(low, i_last_point)
        i_max == i_last_point + depth
                     + argmax(Slice(high, i_last_point + depth, n_bars))
        v_max == At(high, i_max)
        types == [pivot_types EXCEPT ![i_max + 1] = 1]
        prices == [pivots EXCEPT ![i_max + 1] = v_max]
    IN IF Lt(Div(Sub(v_max, v_min), v_min), delta) THEN LastPointAdded(prices, types)
       ELSE IF i_max + depth >= n_bars THEN LastPointAdded(prices, types)
       ELSE LET i_current_min == i_max + argmin(Slice(low, i_max + depth, n_bars))
            IN LastPointAdded(
                   [prices EXCEPT ![i_current_min + 1] = At(low, i_current_min)],
                   [types EXCEPT ![i_current_min + 1] = 0 - 1])

\* The set of outcomes of add_last_point.  On empty arrays the compiled code
\* reads pivot_types[0] out of bounds (njit does no bounds checking): the
\* call may return, raise IndexError (the JIT disabled) or crash.
add_last_point(pivot_types, pivots, high, low, close, delta, depth) ==
    LET n_bars == Len(high)
        i_last_point == last_point(pivot_types)
    IN IF n_bars = 0
       THEN {LastPointAdded(pivots, pivot_types),
             [kind |-> "IndexError", pivots |-> pivots, pivot_types |-> pivot_types],
             [kind |-> "crash", pivots |-> pivots, pivot_types |-> pivot_types]}
       ELSE IF At(pivot_types, i_last_point) = 0
       THEN {LastPointAdded(pivots, pivot_types)}
       ELSE IF i_last_point + depth >= n_bars
       THEN {LastPointAdded(pivots, pivot_types)}
       ELSE IF At(pivot_types, i_last_point) > 0
       THEN {add_last_low(i_last_point, pivot_types, pivots, high, low, delta, depth)}
       ELSE {add_last_high(i_last_point, pivot_types, pivots, high, low, delta, depth)}

\* the checks of get_indicator_out
zigzag_check(delta, depth, type) ==
    IF Leq(delta, Num(0))
    THEN Thrown("BadParameterValue", "delta must be greater than 0", "", <<>>)
    ELSE IF depth < 1
    THEN Thrown("BadParameterValue", "depth must be at least 1", "", <<>>)
    ELSE IF type \notin {"high_low", "open", "high", "low", "close"}
    THEN Thrown("BadParameterValue", "type must be one of valid_types", "", <<>>)
    ELSE Completed

\* the arguments a caller passes
ZigzagDeltas == {Num(0), Float(1, 4)}

ZigzagDepths == 0..2

ZigzagTypes == {"high_low", "close", "typical"}

\* the quotes the indicator is called on
ZigzagQuotes == IF op = NoOp THEN cont ELSE prev

\* high and low of get_indicator_out: quotes.high and quotes.low, or the
\* series quotes[type] for both
ZigzagHigh(type) ==
    Values(arrays[IF type = "high_low" THEN getattr(ZigzagQuotes, "high").array
                  ELSE getitem_str(ZigzagQuotes, type).array])

ZigzagLow(type) ==
    Values(arrays[IF type = "high_low" THEN getattr(ZigzagQuotes, "low").array
                  ELSE getitem_str(ZigzagQuotes, type).array])

\* a Quotes container of 0..MaxBars bars exists, the low of a bar not above
\* its high; open and close hold the series of high and low, in buffers of
\* their own
InitZigzag ==
    /\ \E n \in 0..MaxBars :
         \E hs \in [1..n -> Prices], ls \in [1..n -> Prices] :
            /\ \A k \in 1..n : Leq(ls[k], hs[k])
            /\ heap = <<hs, hs, ls, ls>>
            /\ arrays = [k \in 1..4 |-> NewArray(k, n)]
    /\ cont = [type |-> "Quotes", cols |-> REQUIRED_COLUMNS, data |-> <<1, 2, 3, 4>>]
    /\ prev = NoContainer
    /\ op = NoOp
    /\ outcome = NoOutcome
    /\ EngineIdle

\* zigzag(quotes, delta, depth, type, end_points) up to the first call of
\* calc_pivots: the checks and the allocation of pivots and pivot_types
Zigzag ==
    /\ op = NoOp /\ cont.type = "Quotes"
    /\ \E delta \in ZigzagDeltas, depth \in ZigzagDepths, type \in ZigzagTypes,
          end_points \in BOOLEAN :
         LET r == zigzag_check(delta, depth, type)
             call == [name |-> "zigzag", delta |-> delta, depth |-> depth,
                      type |-> type, end_points |-> end_points]
             n_bars == Len(Values(arrays[getattr(cont, "close").array]))
         IN IF r.kind # "ok"
            THEN /\ op' = [at |-> "raised"] @@ call
                 /\ outcome' = r
                 /\ heap' = heap
            ELSE /\ op' = [at |-> "first", i_valid |-> None,
                           pivots |-> Len(heap) + 1,
                           pivot_types |-> Len(heap) + 2] @@ call
                 /\ outcome' = NoOutcome
                 /\ heap' = heap \o <<[k \in 1..n_bars |-> NaN],
                                      [k \in 1..n_bars |-> 0]>>
    /\ cont' = NoContainer
    /\ prev' = cont
    /\ UNCHANGED arrays
    /\ UNCHANGED engine_vars

\* calc_pivots(-1, high, low, delta, pivots, pivot_types, depth, False)
ZigzagFirstPass ==
    /\ op.name = "zigzag" /\ op.at = "first"
    /\ LET r == calc_pivots(0 - 1, ZigzagHigh(op.type), ZigzagLow(op.type),
                            op.delta, heap[op.pivots], heap[op.pivot_types],
                            op.depth, FALSE)
       IN /\ heap' = [heap EXCEPT ![op.pivots] = r.pivots,
                                  ![op.pivot_types] = r.pivot_types]
          /\ op' = [op EXCEPT !.at = "second"]
    /\ UNCHANGED <<arrays, cont, prev, outcome>>
    /\ UNCHANGED engine_vars

\* i_valid = calc_pivots(1, high, low, delta, pivots, pivot_types, depth, True)
ZigzagSecondPass ==
    /\ op.name = "zigzag" /\ op.at = "second"
    /\ LET r == calc_pivots(1, ZigzagHigh(op.type), ZigzagLow(op.type),
                            op.delta, heap[op.pivots], heap[op.pivot_types],
                            op.depth, TRUE)
       IN /\ heap' = [heap EXCEPT ![op.pivots] = r.pivots,
                                  ![op.pivot_types] = r.pivot_types]
          /\ op' = [op EXCEPT !.at = "ends", !.i_valid = r.result]
    /\ UNCHANGED <<arrays, cont, prev, outcome>>
    /\ UNCHANGED engine_vars

\* the pivots before the first valid one are removed, or, with end_points,
\* the unfinished pivots at the end are added
ZigzagEnds ==
    /\ op.name = "zigzag" /\ op.at = "ends"
    /\ \E r \in IF op.end_points
                THEN add_last_point(heap[op.pivot_types], heap[op.pivots],
                                    ZigzagHigh(op.type), ZigzagLow(op.type),
                                    Values(arrays[getattr(ZigzagQuotes, "close").array]),
                                    op.delta, op.depth)
                ELSE IF op.i_valid # None
                THEN {trim_to_valid(op.i_valid[1], ZigzagHigh(op.type),
                                    ZigzagLow(op.type), op.delta,
                                    heap[op.pivots], heap[op.pivot_types])}
                ELSE {LastPointAdded(heap[op.pivots], heap[op.pivot_types])} :
         /\ heap' = [heap EXCEPT ![op.pivots] = r.pivots,
                                 ![op.pivot_types] = r.pivot_types]
         /\ op' = [op EXCEPT !.at = IF r.kind = "ok" THEN "return" ELSE "raised"]
         /\ outcome' = IF r.kind = "ok" THEN outcome
                       ELSE Thrown(r.kind, "", "", <<>>)
    /\ UNCHANGED <<arrays, cont, prev>>
    /\ UNCHANGED engine_vars

\* return IndicatorResult({'pivots': pivots, 'pivot_types': pivot_types})
ZigzagReturn ==
    /\ op.name = "zigzag" /\ op.at = "return"
    /\ op' = [op EXCEPT !.at = "done"]
    /\ outcome' = Completed
    /\ arrays' = arrays \o <<NewArray(op.pivots, Len(heap[op.pivots])),
                             NewArray(op.pivot_types, Len(heap[op.pivot_types]))>>
    /\ cont' = [type |-> "IndicatorResult", cols |-> <<"pivots", "pivot_types">>,
                data |-> <<Len(arrays) + 1, Len(arrays) + 2>>]
    /\ UNCHANGED <<heap, prev>>
    /\ UNCHANGED engine_vars

NextZigzag ==
    \/ Zigzag \/ ZigzagFirstPass \/ ZigzagSecondPass
    \/ ZigzagEnds \/ ZigzagReturn

SpecZigzag == InitZigzag /\ [][NextZigzag]_vars

----------------------------------------------------------------------------
\* vocabulary of the zigzag property

\* zigzag was called with delta > 0, depth >= 1, a valid type and
\* end_points = False
ZigzagCalled ==
    /\ op.name = "zigzag"
    /\ Lt(Num(0), op.delta) /\ op.depth >= 1
    /\ op.type \in {"high_low", "close"}
    /\ ~op.end_points

\* C30: zigzag on positive prices with delta > 0, depth >= 1 and end_points
\* = False returns pivot_types whose non-zero entries alternate between 1
\* and -1 in index order, and pivots[i] is not NaN exactly where
\* pivot_types[i] is not 0.
C30_PivotsAlternate ==
    ZigzagCalled =>
        /\ op.at # "raised"
        /\ op.at = "done" =>
              /\ outcome.kind = "ok"
              /\ cont.cols = <<"pivots", "pivot_types">>
              /\ \A k \in 1..Len(ColValues(cont, 2)) :
                    /\ ColValues(cont, 2)[k] \in {0 - 1, 0, 1}
                    /\ IsNaN(ColValues(cont, 1)[k]) <=> ColValues(cont, 2)[k] = 0
              /\ Alternates(ColValues(cont, 2))

====
